---- MODULE Spec2Model ----
(***************************************************************************)
(* QC rule parser of EEA_QC_BUILDER: QCParser (back/parser/qc_parser.py),  *)
(* SQLSemanticExtractor (same file) and QCSemanticAnalyzer                 *)
(* (back/QC_GENERATOR/qc_semantic_analyzer.py).                            *)
(*                                                                         *)
(* Python str values are sequences of one-character strings, so that       *)
(* strip(), lower(), the substring tests and the regular expressions are   *)
(* computed character by character.                                        *)
(***************************************************************************)
EXTENDS Integers, Sequences, FiniteSets, TLC

(***************************************************************************)
(* Python str primitives                                                   *)
(***************************************************************************)

\* The printable ASCII characters in code-point order (32..126), which is
\* the order sorted() compares str values in.  The double quote (34), the
\* backslash (92) and the backtick (96) keep their places under the names
\* "dquote", "bslash" and "btick".
Ascii ==
  << " ", "!", "dquote", "#", "$", "%", "&", "'", "(", ")", "*", "+", ",", "-",
     ".", "/", "0", "1", "2", "3", "4", "5", "6", "7", "8", "9", ":", ";",
     "<", "=", ">", "?", "@", "A", "B", "C", "D", "E", "F", "G", "H", "I",
     "J", "K", "L", "M", "N", "O", "P", "Q", "R", "S", "T", "U", "V", "W",
     "X", "Y", "Z", "[", "bslash", "]", "^", "_", "btick", "a", "b", "c", "d", "e",
     "f", "g", "h", "i", "j", "k", "l", "m", "n", "o", "p", "q", "r", "s",
     "t", "u", "v", "w", "x", "y", "z", "{", "|", "}", "~" >>

UpperChars == {"A", "B", "C", "D", "E", "F", "G", "H", "I", "J", "K", "L", "M",
               "N", "O", "P", "Q", "R", "S", "T", "U", "V", "W", "X", "Y", "Z"}

LowerChars == {"a", "b", "c", "d", "e", "f", "g", "h", "i", "j", "k", "l", "m",
               "n", "o", "p", "q", "r", "s", "t", "u", "v", "w", "x", "y", "z"}

DigitChars == {"0", "1", "2", "3", "4", "5", "6", "7", "8", "9"}

\* str.strip() and the regular expression class \s
SpaceChars == {" ", "\t", "\n", "\r"}

\* every character that is not whitespace
NonSpaceChars == {Ascii[i] : i \in 1..Len(Ascii)} \ SpaceChars

\* the regular expression class \w
WordChars == UpperChars \cup LowerChars \cup DigitChars \cup {"_"}

\* the regular expression class [0-9.]
NumberChars == DigitChars \cup {"."}

\* ord(c): a tab, newline or carriage return sorts before every printable
Ord(c) == IF c \in {"\t", "\n", "\r"} THEN 0
          ELSE CHOOSE i \in 1..Len(Ascii) : Ascii[i] = c

\* str.lower() on one character: an upper-case letter is 32 code points
\* below its lower-case form
LowerChar(c) == IF c \in UpperChars THEN Ascii[Ord(c) + 32] ELSE c

\* str.lower()
Lower(s) == [i \in 1..Len(s) |-> LowerChar(s[i])]

\* s[i:]  (i is 1-based here)
From(s, i) == IF i > Len(s) THEN << >> ELSE SubSeq(s, i, Len(s))

\* s starts with sub at position i
StartsAt(s, i, sub) ==
  /\ i >= 1
  /\ i + Len(sub) - 1 <= Len(s)
  /\ \A k \in 1..Len(sub) : s[i + k - 1] = sub[k]

\* sub in s
Contains(s, sub) == \E i \in 1..(Len(s) + 1) : StartsAt(s, i, sub)

\* str.strip(): drop leading and trailing whitespace
Strip(s) ==
  LET keep == {i \in 1..Len(s) : s[i] \notin SpaceChars}
  IN IF keep = {} THEN << >>
     ELSE LET lo == CHOOSE i \in keep : \A j \in keep : i <= j
              hi == CHOOSE i \in keep : \A j \in keep : i >= j
          IN SubSeq(s, lo, hi)

\* s < t for two str values (lexicographic, by code point)
StrLess(s, t) ==
  \E k \in 1..(Len(t)) :
     /\ \A j \in 1..(k - 1) : j <= Len(s) /\ s[j] = t[j]
     /\ \/ k = Len(s) + 1
        \/ k <= Len(s) /\ Ord(s[k]) < Ord(t[k])

\* a set of str listed from the greatest down
RECURSIVE SortedDescending(_)
SortedDescending(S) ==
  IF S = {} THEN << >>
  ELSE LET m == CHOOSE x \in S : \A y \in S \ {x} : StrLess(y, x)
       IN << m >> \o SortedDescending(S \ {m})

\* sorted(list(S)) for a set of str
RECURSIVE Sorted(_)
Sorted(S) ==
  IF S = {} THEN << >>
  ELSE LET m == CHOOSE x \in S : \A y \in S \ {x} : StrLess(x, y)
       IN << m >> \o Sorted(S \ {m})

\* The least element of a non-empty set of integers
Least(S) == CHOOSE i \in S : \A j \in S : i <= j

\* Number of leading characters of s[i:] that belong to class: the run ends
\* at the first character outside class, or at the end of s
Run(s, i, class) ==
  IF i > Len(s) THEN 0
  ELSE Least({j \in i..(Len(s) + 1) : j > Len(s) \/ s[j] \notin class}) - i

\* '.'.join(parts)
RECURSIVE JoinDot(_)
JoinDot(parts) ==
  IF Len(parts) = 0 THEN << >>
  ELSE IF Len(parts) = 1 THEN parts[1]
  ELSE parts[1] \o << "." >> \o JoinDot(Tail(parts))

\* Python None and a present value: an optional value is a sequence of
\* length 0 or 1
None == << >>
Some(v) == << v >>

\* Body of the value v: v is worked out once and named
With(v, Body(_)) == Body(v)

\* What a call returns: a value, or the exception it raises
Ok(v) == [raised |-> FALSE, exc |-> "", msg |-> "", value |-> Some(v)]
Raise(exc, msg) == [raised |-> TRUE, exc |-> exc, msg |-> msg, value |-> None]

\* A call followed by the statements Rest: an exception of the call leaves
\* the function at once, a value goes on to Rest
Then(call, Rest(_)) == IF call.raised THEN call ELSE Rest(call.value[1])

\* try: call, except Exception as e: Handler(e)
TryExcept(call, Handler(_)) == IF call.raised THEN Handler(call) ELSE call

(***************************************************************************)
(* The tree sqlglot.parse_one returns.  A tree is a sequence of nodes in   *)
(* pre-order, the root first; a node names its children by their index.    *)
(* classes: the classes of _walk_ast's isinstance tests the node is an     *)
(* instance of; type: type(node).__name__; sql: str(node);                 *)
(* this: node.this when it is a node (0 when absent); value: node.this     *)
(* when it is a str; catalog, db, table, name: the node's name properties  *)
(* ("" when absent); kind, on: the "kind" and "on" args of a Join;         *)
(* expressions: the projections of a Select; children: what                *)
(* node.iter_expressions() yields, in order.                               *)
(***************************************************************************)
Expr(type, classes, sql, this, children) ==
  [type |-> type, classes |-> classes, sql |-> sql,
   this |-> this, value |-> << >>, is_string |-> FALSE,
   catalog |-> << >>, db |-> << >>, table |-> << >>, name |-> << >>,
   kind |-> None, on |-> 0, alias |-> << >>,
   expressions |-> << >>, children |-> children]

\* an expression under an alias (expr.alias)
Aliased(node, alias) == [node EXCEPT !.alias = alias]

TIdentifier == <<"I", "d", "e", "n", "t", "i", "f", "i", "e", "r">>
TColumn == <<"C", "o", "l", "u", "m", "n">>
TTable == <<"T", "a", "b", "l", "e">>
TLiteral == <<"L", "i", "t", "e", "r", "a", "l">>
TJoin == <<"J", "o", "i", "n">>
TSelect == <<"S", "e", "l", "e", "c", "t">>

Identifier(name) ==
  [Expr(TIdentifier, {}, name, 0, << >>) EXCEPT !.value = name, !.name = name]

Column(table, name, this, children) ==
  [Expr(TColumn, {"Column"},
        JoinDot(SelectSeq(<<table, name>>, LAMBDA p : p # << >>)),
        this, children)
     EXCEPT !.table = table, !.name = name]

Table(db, name, sql, this, children) ==
  [Expr(TTable, {"Table"}, sql, this, children)
     EXCEPT !.db = db, !.name = name]

Literal(value, is_string) ==
  [Expr(TLiteral, {"Literal"},
        IF is_string THEN <<"'">> \o value \o <<"'">> ELSE value, 0, << >>)
     EXCEPT !.value = value, !.is_string = is_string]

Join(kind, this, on, sql, children) ==
  [Expr(TJoin, {"Join"}, sql, this, children) EXCEPT !.kind = kind, !.on = on]

Select(expressions, sql, children) ==
  [Expr(TSelect, {"Select"}, sql, 0, children)
     EXCEPT !.expressions = expressions]

(***************************************************************************)
(* SQLSemanticExtractor                                                    *)
(***************************************************************************)

\* SQLSemanticExtractor.__init__: the fields of a new extractor
SQLSemanticExtractor ==
  [tables |-> {}, columns |-> {}, joins |-> << >>,
   where_conditions |-> << >>, select_expressions |-> << >>,
   aggregations |-> << >>, functions |-> {}, literals |-> << >>,
   operators |-> {}, subqueries |-> 0]

\* node.key: the lower-cased name of the node's class
Key(node) == Lower(node.type)

\* isinstance(node, exp.<c>) for some c of cs
IsInstance(node, cs) == node.classes \cap cs # {}

\* str(x) if x else None, for an argument that is a node index
StrOrNone(tree, n) == IF n = 0 THEN None ELSE Some(tree[n].sql)

\* _get_qualified_name
GetQualifiedName(tree, node) ==
  LET parts == SelectSeq(<<node.catalog, node.db, node.table, node.name>>,
                         LAMBDA p : p # << >>)
  IN IF parts # << >> THEN JoinDot(parts)
     ELSE IF node.this # 0 THEN tree[node.this].sql
     ELSE IF node.value # << >> THEN node.value
     ELSE node.sql

\* The if/elif chain of _walk_ast on one node: the first isinstance test
\* that holds names the branch taken, the later ones are not tried.
Branch(node) ==
  IF IsInstance(node, {"Table"}) THEN "Table"
  ELSE IF IsInstance(node, {"Column"}) THEN "Column"
  ELSE IF IsInstance(node, {"Join"}) THEN "Join"
  ELSE IF IsInstance(node, {"Where"}) THEN "Where"
  ELSE IF IsInstance(node, {"Select"}) THEN "Select"
  ELSE IF IsInstance(node, {"Count", "Sum", "Avg", "Min", "Max"})
       THEN "Aggregation"
  ELSE IF IsInstance(node, {"Func"}) THEN "Func"
  ELSE IF IsInstance(node, {"Binary", "Unary"}) THEN "Operator"
  ELSE IF IsInstance(node, {"Literal"}) THEN "Literal"
  ELSE IF IsInstance(node, {"Subquery"}) THEN "Subquery"
  ELSE "None"

\* The nodes reached when the walk goes below the nodes of no recognized
\* kind only
RECURSIVE ReachedBelowUnrecognized(_, _)
ReachedBelowUnrecognized(tree, S) ==
  LET children ==
        UNION {{tree[n].children[i] : i \in 1..Len(tree[n].children)} :
                 n \in {m \in S : Branch(tree[m]) = "None"}}
  IN IF children \subseteq S THEN S
     ELSE ReachedBelowUnrecognized(tree, S \cup children)

\* The nodes the calls of _walk_ast reach from the nodes S: S, and
\* ("Recursively process child nodes") what is reached from the children of
\* the nodes of S
RECURSIVE Reached(_, _)
Reached(tree, S) ==
  LET children ==
        UNION {{tree[n].children[i] : i \in 1..Len(tree[n].children)} :
                 n \in S}
  IN IF children \subseteq S THEN S ELSE Reached(tree, S \cup children)

\* The nodes _walk_ast is called on, in call order, when called on tree[n].
\* A tree lists its nodes in the order of the walk (a node, then the walk of
\* each of its children), so the order of the calls is that of the indexes.
Walked(tree, n) ==
  LET reached == Reached(tree, {n})
  IN [k \in 1..Cardinality(reached) |->
        CHOOSE m \in reached : Cardinality({j \in reached : j < m}) = k - 1]

\* join_info of a Join node
JoinInfo(tree, node) ==
  [type |-> IF node.kind = None THEN <<"I", "N", "N", "E", "R">>
            ELSE node.kind[1],
   table |-> StrOrNone(tree, node.this),
   on_condition |-> StrOrNone(tree, node.on)]

\* the dict appended for a Where node
WhereInfo(tree, node) ==
  [condition |-> tree[node.this].sql, type |-> tree[node.this].type]

\* the select_info entries of one Select node, in order
SelectInfos(tree, node) ==
  [i \in 1..Len(node.expressions) |->
     LET e == tree[node.expressions[i]]
     IN [expression |-> e.sql,
         alias |-> IF e.alias # << >> THEN Some(e.alias) ELSE None,
         type |-> e.type]]

\* the dict appended for an aggregate call
AggregationInfo(tree, node) ==
  [function |-> node.type, argument |-> StrOrNone(tree, node.this)]

\* the dict appended for a Literal node
LiteralInfo(tree, node) ==
  [value |-> node.value,
   type |-> IF node.is_string THEN "string" ELSE "number"]

\* The concatenation of the sequences lists[i..]
RECURSIVE Concat(_, _)
Concat(lists, i) ==
  IF i > Len(lists) THEN << >> ELSE lists[i] \o Concat(lists, i + 1)

\* _walk_ast(tree[n]) on the extractor self: each node walked adds what its
\* branch of the if/elif chain adds, in the order of the walk
WalkAst(tree, n, self) ==
  LET walked == Walked(tree, n)
      of(branch) == SelectSeq(walked, LAMBDA k : Branch(tree[k]) = branch)
      each(branch, Info(_, _)) ==
        [i \in 1..Len(of(branch)) |-> Info(tree, tree[of(branch)[i]])]
      names(branch) ==
        {GetQualifiedName(tree, tree[of(branch)[i]]) :
           i \in 1..Len(of(branch))}
  IN [tables |-> self.tables \cup names("Table"),
      columns |-> self.columns \cup names("Column"),
      joins |-> self.joins \o each("Join", JoinInfo),
      where_conditions |->
        self.where_conditions \o each("Where", WhereInfo),
      select_expressions |->
        self.select_expressions \o Concat(each("Select", SelectInfos), 1),
      aggregations |->
        self.aggregations \o each("Aggregation", AggregationInfo),
      functions |->
        self.functions
          \cup {tree[of("Func")[i]].type : i \in 1..Len(of("Func"))},
      literals |-> self.literals \o each("Literal", LiteralInfo),
      operators |->
        self.operators
          \cup {Key(tree[of("Operator")[i]]) : i \in 1..Len(of("Operator"))},
      subqueries |-> self.subqueries + Len(of("Subquery"))]

\* the score with the columns counted in place of the tables
ComplexityOfColumns(self) ==
    Cardinality(self.columns) * 2
  + Len(self.joins) * 5
  + Len(self.where_conditions) * 3
  + Len(self.aggregations) * 4
  + self.subqueries * 10
  + Cardinality(self.functions) * 2

\* _calculate_complexity
CalculateComplexity(self) ==
    Cardinality(self.tables) * 2
  + Len(self.joins) * 5
  + Len(self.where_conditions) * 3
  + Len(self.aggregations) * 4
  + self.subqueries * 10
  + Cardinality(self.functions) * 2

(***************************************************************************)
(* The predicates of the model and what sqlglot.parse_one makes of them    *)
(***************************************************************************)

\* "resultUom IS NULL"
SqlNull ==
  <<"r", "e", "s", "u", "l", "t", "U", "o", "m", " ", "I", "S", " ", "N",
    "U", "L", "L">>

\* "a.value >= 0 AND a.value <= 100"
SqlRange ==
  <<"a", ".", "v", "a", "l", "u", "e", " ", ">", "=", " ", "0", " ", "A",
    "N", "D", " ", "a", ".", "v", "a", "l", "u", "e", " ", "<", "=", " ",
    "1", "0", "0">>

\* "status IN ('Active','Inactive')"
SqlIn ==
  <<"s", "t", "a", "t", "u", "s", " ", "I", "N", " ", "(", "'", "A", "c",
    "t", "i", "v", "e", "'", ",", "'", "I", "n", "a", "c", "t", "i", "v",
    "e", "'", ")">>

\* "v BETWEEN 1 AND 5"
SqlBetween ==
  <<"v", " ", "B", "E", "T", "W", "E", "E", "N", " ", "1", " ", "A", "N",
    "D", " ", "5">>

\* "x > 5"
SqlGt == <<"x", " ", ">", " ", "5">>

\* "SELECT a.id FROM t1 AS a JOIN t2 AS b ON a.id = b.id"
SqlJoin ==
  <<"S", "E", "L", "E", "C", "T", " ", "a", ".", "i", "d", " ", "F", "R",
    "O", "M", " ", "t", "1", " ", "A", "S", " ", "a", " ", "J", "O", "I",
    "N", " ", "t", "2", " ", "A", "S", " ", "b", " ", "O", "N", " ", "a",
    ".", "i", "d", " ", "=", " ", "b", ".", "i", "d">>

\* "SELECT a.id FROM t1 AS a JOIN t2 AS b ON a.id = b.id WHERE b.id IS NOT NULL"
SqlJoinNull ==
  <<"S", "E", "L", "E", "C", "T", " ", "a", ".", "i", "d", " ", "F", "R",
    "O", "M", " ", "t", "1", " ", "A", "S", " ", "a", " ", "J", "O", "I",
    "N", " ", "t", "2", " ", "A", "S", " ", "b", " ", "O", "N", " ", "a",
    ".", "i", "d", " ", "=", " ", "b", ".", "i", "d", " ", "W", "H", "E",
    "R", "E", " ", "b", ".", "i", "d", " ", "I", "S", " ", "N", "O", "T",
    " ", "N", "U", "L", "L">>

\* "a = b + c"
SqlThree == <<"a", " ", "=", " ", "b", " ", "+", " ", "c">>

\* "a = b"
SqlTwo == <<"a", " ", "=", " ", "b">>

\* "SELECT COUNT(x), LOWER(y) FROM s.t WHERE z = (SELECT MAX(w) FROM u)"
SqlAgg ==
  <<"S", "E", "L", "E", "C", "T", " ", "C", "O", "U", "N", "T", "(", "x",
    ")", ",", " ", "L", "O", "W", "E", "R", "(", "y", ")", " ", "F", "R",
    "O", "M", " ", "s", ".", "t", " ", "W", "H", "E", "R", "E", " ", "z",
    " ", "=", " ", "(", "S", "E", "L", "E", "C", "T", " ", "M", "A", "X",
    "(", "w", ")", " ", "F", "R", "O", "M", " ", "u", ")">>

\* "y < 5 AND x >= 2.50 AND y > 5"
SqlMixed ==
  <<"y", " ", "<", " ", "5", " ", "A", "N", "D", " ", "x", " ", ">", "=",
    " ", "2", ".", "5", "0", " ", "A", "N", "D", " ", "y", " ", ">", " ",
    "5">>

\* "SELECT COUNT(x), MAX(y) FROM t"
SqlTwoAggs ==
  <<"S", "E", "L", "E", "C", "T", " ", "C", "O", "U", "N", "T", "(", "x",
    ")", ",", " ", "M", "A", "X", "(", "y", ")", " ", "F", "R", "O", "M",
    " ", "t">>

\* "SELECT COUNT(x), LOWER(y) FROM s.t WHERE z = (SELECT MAX(w) FROM u WHERE v = 1)"
SqlAggWhere ==
  <<"S", "E", "L", "E", "C", "T", " ", "C", "O", "U", "N", "T", "(", "x",
    ")", ",", " ", "L", "O", "W", "E", "R", "(", "y", ")", " ", "F", "R",
    "O", "M", " ", "s", ".", "t", " ", "W", "H", "E", "R", "E", " ", "z",
    " ", "=", " ", "(", "S", "E", "L", "E", "C", "T", " ", "M", "A", "X",
    "(", "w", ")", " ", "F", "R", "O", "M", " ", "u", " ", "W", "H", "E",
    "R", "E", " ", "v", " ", "=", " ", "1", ")">>

\* "(x IS NULL"
SqlBadNull == <<"(", "x", " ", "I", "S", " ", "N", "U", "L", "L">>

\* "(s IN (1, 2)"
SqlBadIn == <<"(", "s", " ", "I", "N", " ", "(", "1", ",", " ", "2", ")">>

\* "(x >= 1.2.3"
SqlBadNumber == <<"(", "x", " ", ">", "=", " ", "1", ".", "2", ".", "3">>

\* "(a = b"
SqlBadPlain == <<"(", "a", " ", "=", " ", "b">>

\* ""
SqlEmpty == << >>

\* "   "
SqlBlank == <<" ", " ", " ">>

\* " x > 5 \t"
SqlPaddedGt == <<" ", "x", " ", ">", " ", "5", " ", "\t">>

\* class names of the tree nodes
TAdd == <<"A", "d", "d">>
TAnd == <<"A", "n", "d">>
TBetween == <<"B", "e", "t", "w", "e", "e", "n">>
TCount == <<"C", "o", "u", "n", "t">>
TEQ == <<"E", "Q">>
TFrom == <<"F", "r", "o", "m">>
TGT == <<"G", "T">>
TGTE == <<"G", "T", "E">>
TIn == <<"I", "n">>
TIs == <<"I", "s">>
TLT == <<"L", "T">>
TLTE == <<"L", "T", "E">>
TLower == <<"L", "o", "w", "e", "r">>
TMax == <<"M", "a", "x">>
TNot == <<"N", "o", "t">>
TNull == <<"N", "u", "l", "l">>
TSubquery == <<"S", "u", "b", "q", "u", "e", "r", "y">>
TTableAlias == <<"T", "a", "b", "l", "e", "A", "l", "i", "a", "s">>
TWhere == <<"W", "h", "e", "r", "e">>

\* sqlglot.parse_one of SqlNull
TreeNull ==
  << Expr(TIs, {"Binary"}, <<"r", "e", "s", "u", "l", "t", "U", "o", "m",
         " ", "I", "S", " ", "N", "U", "L", "L">>, 2, <<2,4>>),
     Column(<< >>, <<"r", "e", "s", "u", "l", "t", "U", "o", "m">>, 3,
         <<3>>),
     Identifier(<<"r", "e", "s", "u", "l", "t", "U", "o", "m">>),
     Expr(TNull, {}, <<"N", "U", "L", "L">>, 0, <<>>) >>

\* sqlglot.parse_one of SqlRange
TreeRange ==
  << Expr(TAnd, {"Binary"}, <<"a", ".", "v", "a", "l", "u", "e", " ", ">",
         "=", " ", "0", " ", "A", "N", "D", " ", "a", ".", "v", "a", "l",
         "u", "e", " ", "<", "=", " ", "1", "0", "0">>, 2, <<2,7>>),
     Expr(TGTE, {"Binary"}, <<"a", ".", "v", "a", "l", "u", "e", " ", ">",
         "=", " ", "0">>, 3, <<3,6>>),
     Column(<<"a">>, <<"v", "a", "l", "u", "e">>, 4, <<4,5>>),
     Identifier(<<"v", "a", "l", "u", "e">>),
     Identifier(<<"a">>),
     Literal(<<"0">>, FALSE),
     Expr(TLTE, {"Binary"}, <<"a", ".", "v", "a", "l", "u", "e", " ", "<",
         "=", " ", "1", "0", "0">>, 8, <<8,11>>),
     Column(<<"a">>, <<"v", "a", "l", "u", "e">>, 9, <<9,10>>),
     Identifier(<<"v", "a", "l", "u", "e">>),
     Identifier(<<"a">>),
     Literal(<<"1", "0", "0">>, FALSE) >>

\* sqlglot.parse_one of SqlIn
TreeIn ==
  << Expr(TIn, {}, <<"s", "t", "a", "t", "u", "s", " ", "I", "N", " ", "(",
         "'", "A", "c", "t", "i", "v", "e", "'", ",", " ", "'", "I", "n",
         "a", "c", "t", "i", "v", "e", "'", ")">>, 2, <<2,4,5>>),
     Column(<< >>, <<"s", "t", "a", "t", "u", "s">>, 3, <<3>>),
     Identifier(<<"s", "t", "a", "t", "u", "s">>),
     Literal(<<"A", "c", "t", "i", "v", "e">>, TRUE),
     Literal(<<"I", "n", "a", "c", "t", "i", "v", "e">>, TRUE) >>

\* sqlglot.parse_one of SqlBetween
TreeBetween ==
  << Expr(TBetween, {}, <<"v", " ", "B", "E", "T", "W", "E", "E", "N", " ",
         "1", " ", "A", "N", "D", " ", "5">>, 2, <<2,4,5>>),
     Column(<< >>, <<"v">>, 3, <<3>>),
     Identifier(<<"v">>),
     Literal(<<"1">>, FALSE),
     Literal(<<"5">>, FALSE) >>

\* sqlglot.parse_one of SqlGt
TreeGt ==
  << Expr(TGT, {"Binary"}, <<"x", " ", ">", " ", "5">>, 2, <<2,4>>),
     Column(<< >>, <<"x">>, 3, <<3>>),
     Identifier(<<"x">>),
     Literal(<<"5">>, FALSE) >>

\* sqlglot.parse_one of SqlJoin
TreeJoin ==
  << Select(<<2>>, <<"S", "E", "L", "E", "C", "T", " ", "a", ".", "i", "d",
         " ", "F", "R", "O", "M", " ", "t", "1", " ", "A", "S", " ", "a",
         " ", "J", "O", "I", "N", " ", "t", "2", " ", "A", "S", " ", "b",
         " ", "O", "N", " ", "a", ".", "i", "d", " ", "=", " ", "b", ".",
         "i", "d">>, <<2,5,10>>),
     Column(<<"a">>, <<"i", "d">>, 3, <<3,4>>),
     Identifier(<<"i", "d">>),
     Identifier(<<"a">>),
     Expr(TFrom, {}, <<"F", "R", "O", "M", " ", "t", "1", " ", "A", "S", " ",
         "a">>, 6, <<6>>),
     Table(<< >>, <<"t", "1">>, <<"t", "1", " ", "A", "S", " ", "a">>, 7,
         <<7,8>>),
     Identifier(<<"t", "1">>),
     Aliased(Expr(TTableAlias, {}, <<"a">>, 0, <<9>>), <<"a">>),
     Identifier(<<"a">>),
     Join(<< >>, 11, 15, <<"J", "O", "I", "N", " ", "t", "2", " ", "A", "S",
         " ", "b", " ", "O", "N", " ", "a", ".", "i", "d", " ", "=", " ",
         "b", ".", "i", "d">>, <<11,15>>),
     Table(<< >>, <<"t", "2">>, <<"t", "2", " ", "A", "S", " ", "b">>, 12,
         <<12,13>>),
     Identifier(<<"t", "2">>),
     Aliased(Expr(TTableAlias, {}, <<"b">>, 0, <<14>>), <<"b">>),
     Identifier(<<"b">>),
     Expr(TEQ, {"Binary"}, <<"a", ".", "i", "d", " ", "=", " ", "b", ".",
         "i", "d">>, 16, <<16,19>>),
     Column(<<"a">>, <<"i", "d">>, 17, <<17,18>>),
     Identifier(<<"i", "d">>),
     Identifier(<<"a">>),
     Column(<<"b">>, <<"i", "d">>, 20, <<20,21>>),
     Identifier(<<"i", "d">>),
     Identifier(<<"b">>) >>

\* sqlglot.parse_one of SqlJoinNull
TreeJoinNull ==
  << Select(<<2>>, <<"S", "E", "L", "E", "C", "T", " ", "a", ".", "i", "d",
         " ", "F", "R", "O", "M", " ", "t", "1", " ", "A", "S", " ", "a",
         " ", "J", "O", "I", "N", " ", "t", "2", " ", "A", "S", " ", "b",
         " ", "O", "N", " ", "a", ".", "i", "d", " ", "=", " ", "b", ".",
         "i", "d", " ", "W", "H", "E", "R", "E", " ", "N", "O", "T", " ",
         "b", ".", "i", "d", " ", "I", "S", " ", "N", "U", "L", "L">>,
         <<2,5,10,22>>),
     Column(<<"a">>, <<"i", "d">>, 3, <<3,4>>),
     Identifier(<<"i", "d">>),
     Identifier(<<"a">>),
     Expr(TFrom, {}, <<"F", "R", "O", "M", " ", "t", "1", " ", "A", "S", " ",
         "a">>, 6, <<6>>),
     Table(<< >>, <<"t", "1">>, <<"t", "1", " ", "A", "S", " ", "a">>, 7,
         <<7,8>>),
     Identifier(<<"t", "1">>),
     Aliased(Expr(TTableAlias, {}, <<"a">>, 0, <<9>>), <<"a">>),
     Identifier(<<"a">>),
     Join(<< >>, 11, 15, <<"J", "O", "I", "N", " ", "t", "2", " ", "A", "S",
         " ", "b", " ", "O", "N", " ", "a", ".", "i", "d", " ", "=", " ",
         "b", ".", "i", "d">>, <<11,15>>),
     Table(<< >>, <<"t", "2">>, <<"t", "2", " ", "A", "S", " ", "b">>, 12,
         <<12,13>>),
     Identifier(<<"t", "2">>),
     Aliased(Expr(TTableAlias, {}, <<"b">>, 0, <<14>>), <<"b">>),
     Identifier(<<"b">>),
     Expr(TEQ, {"Binary"}, <<"a", ".", "i", "d", " ", "=", " ", "b", ".",
         "i", "d">>, 16, <<16,19>>),
     Column(<<"a">>, <<"i", "d">>, 17, <<17,18>>),
     Identifier(<<"i", "d">>),
     Identifier(<<"a">>),
     Column(<<"b">>, <<"i", "d">>, 20, <<20,21>>),
     Identifier(<<"i", "d">>),
     Identifier(<<"b">>),
     Expr(TWhere, {"Where"}, <<"W", "H", "E", "R", "E", " ", "N", "O", "T",
         " ", "b", ".", "i", "d", " ", "I", "S", " ", "N", "U", "L", "L">>,
         23, <<23>>),
     Expr(TNot, {"Unary"}, <<"N", "O", "T", " ", "b", ".", "i", "d", " ",
         "I", "S", " ", "N", "U", "L", "L">>, 24, <<24>>),
     Expr(TIs, {"Binary"}, <<"b", ".", "i", "d", " ", "I", "S", " ", "N",
         "U", "L", "L">>, 25, <<25,28>>),
     Column(<<"b">>, <<"i", "d">>, 26, <<26,27>>),
     Identifier(<<"i", "d">>),
     Identifier(<<"b">>),
     Expr(TNull, {}, <<"N", "U", "L", "L">>, 0, <<>>) >>

\* sqlglot.parse_one of SqlThree
TreeThree ==
  << Expr(TEQ, {"Binary"}, <<"a", " ", "=", " ", "b", " ", "+", " ", "c">>,
         2, <<2,4>>),
     Column(<< >>, <<"a">>, 3, <<3>>),
     Identifier(<<"a">>),
     Expr(TAdd, {"Binary"}, <<"b", " ", "+", " ", "c">>, 5, <<5,7>>),
     Column(<< >>, <<"b">>, 6, <<6>>),
     Identifier(<<"b">>),
     Column(<< >>, <<"c">>, 8, <<8>>),
     Identifier(<<"c">>) >>

\* sqlglot.parse_one of SqlTwo
TreeTwo ==
  << Expr(TEQ, {"Binary"}, <<"a", " ", "=", " ", "b">>, 2, <<2,4>>),
     Column(<< >>, <<"a">>, 3, <<3>>),
     Identifier(<<"a">>),
     Column(<< >>, <<"b">>, 5, <<5>>),
     Identifier(<<"b">>) >>

\* sqlglot.parse_one of SqlAgg
TreeAgg ==
  << Select(<<2,5>>, <<"S", "E", "L", "E", "C", "T", " ", "C", "O", "U", "N",
         "T", "(", "x", ")", ",", " ", "L", "O", "W", "E", "R", "(", "y",
         ")", " ", "F", "R", "O", "M", " ", "s", ".", "t", " ", "W", "H",
         "E", "R", "E", " ", "z", " ", "=", " ", "(", "S", "E", "L", "E",
         "C", "T", " ", "M", "A", "X", "(", "w", ")", " ", "F", "R", "O",
         "M", " ", "u", ")">>, <<2,5,8,12>>),
     Expr(TCount, {"Count","Func"}, <<"C", "O", "U", "N", "T", "(", "x",
         ")">>, 3, <<3>>),
     Column(<< >>, <<"x">>, 4, <<4>>),
     Identifier(<<"x">>),
     Expr(TLower, {"Func"}, <<"L", "O", "W", "E", "R", "(", "y", ")">>, 6,
         <<6>>),
     Column(<< >>, <<"y">>, 7, <<7>>),
     Identifier(<<"y">>),
     Expr(TFrom, {}, <<"F", "R", "O", "M", " ", "s", ".", "t">>, 9, <<9>>),
     Table(<<"s">>, <<"t">>, <<"s", ".", "t">>, 10, <<10,11>>),
     Identifier(<<"t">>),
     Identifier(<<"s">>),
     Expr(TWhere, {"Where"}, <<"W", "H", "E", "R", "E", " ", "z", " ", "=",
         " ", "(", "S", "E", "L", "E", "C", "T", " ", "M", "A", "X", "(",
         "w", ")", " ", "F", "R", "O", "M", " ", "u", ")">>, 13, <<13>>),
     Expr(TEQ, {"Binary"}, <<"z", " ", "=", " ", "(", "S", "E", "L", "E",
         "C", "T", " ", "M", "A", "X", "(", "w", ")", " ", "F", "R", "O",
         "M", " ", "u", ")">>, 14, <<14,16>>),
     Column(<< >>, <<"z">>, 15, <<15>>),
     Identifier(<<"z">>),
     Expr(TSubquery, {"Subquery"}, <<"(", "S", "E", "L", "E", "C", "T", " ",
         "M", "A", "X", "(", "w", ")", " ", "F", "R", "O", "M", " ", "u",
         ")">>, 17, <<17>>),
     Select(<<18>>, <<"S", "E", "L", "E", "C", "T", " ", "M", "A", "X", "(",
         "w", ")", " ", "F", "R", "O", "M", " ", "u">>, <<18,21>>),
     Expr(TMax, {"Max","Func"}, <<"M", "A", "X", "(", "w", ")">>, 19,
         <<19>>),
     Column(<< >>, <<"w">>, 20, <<20>>),
     Identifier(<<"w">>),
     Expr(TFrom, {}, <<"F", "R", "O", "M", " ", "u">>, 22, <<22>>),
     Table(<< >>, <<"u">>, <<"u">>, 23, <<23>>),
     Identifier(<<"u">>) >>

\* sqlglot.parse_one of SqlMixed
TreeMixed ==
  << Expr(TAnd, {"Binary"}, <<"y", " ", "<", " ", "5", " ", "A", "N", "D",
         " ", "x", " ", ">", "=", " ", "2", ".", "5", "0", " ", "A", "N",
         "D", " ", "y", " ", ">", " ", "5">>, 2, <<2,11>>),
     Expr(TAnd, {"Binary"}, <<"y", " ", "<", " ", "5", " ", "A", "N", "D",
         " ", "x", " ", ">", "=", " ", "2", ".", "5", "0">>, 3, <<3,7>>),
     Expr(TLT, {"Binary"}, <<"y", " ", "<", " ", "5">>, 4, <<4,6>>),
     Column(<< >>, <<"y">>, 5, <<5>>),
     Identifier(<<"y">>),
     Literal(<<"5">>, FALSE),
     Expr(TGTE, {"Binary"}, <<"x", " ", ">", "=", " ", "2", ".", "5", "0">>,
         8, <<8,10>>),
     Column(<< >>, <<"x">>, 9, <<9>>),
     Identifier(<<"x">>),
     Literal(<<"2", ".", "5", "0">>, FALSE),
     Expr(TGT, {"Binary"}, <<"y", " ", ">", " ", "5">>, 12, <<12,14>>),
     Column(<< >>, <<"y">>, 13, <<13>>),
     Identifier(<<"y">>),
     Literal(<<"5">>, FALSE) >>

\* sqlglot.parse_one of SqlTwoAggs
TreeTwoAggs ==
  << Select(<<2,5>>, <<"S", "E", "L", "E", "C", "T", " ", "C", "O", "U", "N",
         "T", "(", "x", ")", ",", " ", "M", "A", "X", "(", "y", ")", " ",
         "F", "R", "O", "M", " ", "t">>, <<2,5,8>>),
     Expr(TCount, {"Count","Func"}, <<"C", "O", "U", "N", "T", "(", "x",
         ")">>, 3, <<3>>),
     Column(<< >>, <<"x">>, 4, <<4>>),
     Identifier(<<"x">>),
     Expr(TMax, {"Max","Func"}, <<"M", "A", "X", "(", "y", ")">>, 6, <<6>>),
     Column(<< >>, <<"y">>, 7, <<7>>),
     Identifier(<<"y">>),
     Expr(TFrom, {}, <<"F", "R", "O", "M", " ", "t">>, 9, <<9>>),
     Table(<< >>, <<"t">>, <<"t">>, 10, <<10>>),
     Identifier(<<"t">>) >>

\* sqlglot.parse_one of SqlAggWhere
TreeAggWhere ==
  << Select(<<2,5>>, <<"S", "E", "L", "E", "C", "T", " ", "C", "O", "U", "N",
         "T", "(", "x", ")", ",", " ", "L", "O", "W", "E", "R", "(", "y",
         ")", " ", "F", "R", "O", "M", " ", "s", ".", "t", " ", "W", "H",
         "E", "R", "E", " ", "z", " ", "=", " ", "(", "S", "E", "L", "E",
         "C", "T", " ", "M", "A", "X", "(", "w", ")", " ", "F", "R", "O",
         "M", " ", "u", " ", "W", "H", "E", "R", "E", " ", "v", " ", "=",
         " ", "1", ")">>, <<2,5,8,12>>),
     Expr(TCount, {"Count","Func"}, <<"C", "O", "U", "N", "T", "(", "x",
         ")">>, 3, <<3>>),
     Column(<< >>, <<"x">>, 4, <<4>>),
     Identifier(<<"x">>),
     Expr(TLower, {"Func"}, <<"L", "O", "W", "E", "R", "(", "y", ")">>, 6,
         <<6>>),
     Column(<< >>, <<"y">>, 7, <<7>>),
     Identifier(<<"y">>),
     Expr(TFrom, {}, <<"F", "R", "O", "M", " ", "s", ".", "t">>, 9, <<9>>),
     Table(<<"s">>, <<"t">>, <<"s", ".", "t">>, 10, <<10,11>>),
     Identifier(<<"t">>),
     Identifier(<<"s">>),
     Expr(TWhere, {"Where"}, <<"W", "H", "E", "R", "E", " ", "z", " ", "=",
         " ", "(", "S", "E", "L", "E", "C", "T", " ", "M", "A", "X", "(",
         "w", ")", " ", "F", "R", "O", "M", " ", "u", " ", "W", "H", "E",
         "R", "E", " ", "v", " ", "=", " ", "1", ")">>, 13, <<13>>),
     Expr(TEQ, {"Binary"}, <<"z", " ", "=", " ", "(", "S", "E", "L", "E",
         "C", "T", " ", "M", "A", "X", "(", "w", ")", " ", "F", "R", "O",
         "M", " ", "u", " ", "W", "H", "E", "R", "E", " ", "v", " ", "=",
         " ", "1", ")">>, 14, <<14,16>>),
     Column(<< >>, <<"z">>, 15, <<15>>),
     Identifier(<<"z">>),
     Expr(TSubquery, {"Subquery"}, <<"(", "S", "E", "L", "E", "C", "T", " ",
         "M", "A", "X", "(", "w", ")", " ", "F", "R", "O", "M", " ", "u",
         " ", "W", "H", "E", "R", "E", " ", "v", " ", "=", " ", "1", ")">>,
         17, <<17>>),
     Select(<<18>>, <<"S", "E", "L", "E", "C", "T", " ", "M", "A", "X", "(",
         "w", ")", " ", "F", "R", "O", "M", " ", "u", " ", "W", "H", "E",
         "R", "E", " ", "v", " ", "=", " ", "1">>, <<18,21,24>>),
     Expr(TMax, {"Max","Func"}, <<"M", "A", "X", "(", "w", ")">>, 19,
         <<19>>),
     Column(<< >>, <<"w">>, 20, <<20>>),
     Identifier(<<"w">>),
     Expr(TFrom, {}, <<"F", "R", "O", "M", " ", "u">>, 22, <<22>>),
     Table(<< >>, <<"u">>, <<"u">>, 23, <<23>>),
     Identifier(<<"u">>),
     Expr(TWhere, {"Where"}, <<"W", "H", "E", "R", "E", " ", "v", " ", "=",
         " ", "1">>, 25, <<25>>),
     Expr(TEQ, {"Binary"}, <<"v", " ", "=", " ", "1">>, 26, <<26,28>>),
     Column(<< >>, <<"v">>, 27, <<27>>),
     Identifier(<<"v">>),
     Literal(<<"1">>, FALSE) >>

\* sqlglot.parse_one(sql, dialect="postgres") on the predicates above: the
\* tree, or the ParseError of an unbalanced parenthesis or of an empty text
ParseOne(sql) ==
  CASE sql = SqlEmpty -> Raise("ParseError", "No expression was parsed")
    [] sql = SqlNull -> Ok(TreeNull)
    [] sql = SqlRange -> Ok(TreeRange)
    [] sql = SqlIn -> Ok(TreeIn)
    [] sql = SqlBetween -> Ok(TreeBetween)
    [] sql = SqlGt -> Ok(TreeGt)
    [] sql = SqlJoin -> Ok(TreeJoin)
    [] sql = SqlJoinNull -> Ok(TreeJoinNull)
    [] sql = SqlThree -> Ok(TreeThree)
    [] sql = SqlTwo -> Ok(TreeTwo)
    [] sql = SqlAgg -> Ok(TreeAgg)
    [] sql = SqlMixed -> Ok(TreeMixed)
    [] sql = SqlTwoAggs -> Ok(TreeTwoAggs)
    [] sql = SqlAggWhere -> Ok(TreeAggWhere)
    [] sql \in {SqlBadNull, SqlBadIn, SqlBadNumber, SqlBadPlain} ->
         Raise("ParseError", "Expecting )")

\* extract, the dict of a parsed predicate, from the extractor after the
\* walk
ExtractResult(after) ==
  [parsed_successfully |-> TRUE,
   tables |-> Sorted(after.tables),
   columns |-> Sorted(after.columns),
   joins |-> after.joins,
   where_conditions |-> after.where_conditions,
   select_expressions |-> after.select_expressions,
   aggregations |-> after.aggregations,
   functions |-> Sorted(after.functions),
   operators |-> Sorted(after.operators),
   literals |-> after.literals,
   subquery_count |-> after.subqueries,
   complexity_score |-> CalculateComplexity(after)]

\* The try block of extract: parse, walk, build the dict.  The value is the
\* extractor after the walk and the dict.
ExtractTry(self, sql) ==
  Then(ParseOne(sql), LAMBDA tree :
    With(WalkAst(tree, 1, self), LAMBDA after :
      Ok([self |-> after, result |-> ExtractResult(after)])))

\* extract without its except clause
ExtractUncaught(self, sql) == ExtractTry(self, sql)

\* SQLSemanticExtractor.extract: the try block, and the except clause that
\* turns any exception into the failure dict
Extract(self, sql) ==
  TryExcept(ExtractTry(self, sql), LAMBDA e :
    Ok([self |-> self,
        result |-> [parsed_successfully |-> FALSE,
                    error |-> e.msg,
                    error_type |-> e.exc]]))

(***************************************************************************)
(* QCSemanticAnalyzer                                                      *)
(***************************************************************************)

\* the str literals of the keyword tests
KwCardinality == <<"c", "a", "r", "d", "i", "n", "a", "l", "i", "t", "y">>
KwFc == <<"f", "c">>
KwFieldType == <<"f", "i", "e", "l", "d", " ", "t", "y", "p", "e">>
KwFt == <<"f", "t">>
KwDate == <<"d", "a", "t", "e">>
KwNumber == <<"n", "u", "m", "b", "e", "r">>
KwInteger == <<"i", "n", "t", "e", "g", "e", "r">>
KwDecimal == <<"d", "e", "c", "i", "m", "a", "l">>
KwCodelist == <<"c", "o", "d", "e", "l", "i", "s", "t">>
KwUniqueconstraint ==
  <<"u", "n", "i", "q", "u", "e", "c", "o", "n", "s", "t", "r", "a", "i",
    "n", "t">>
KwTu == <<"t", "u">>
KwLink == <<"l", "i", "n", "k">>
KwTc == <<"t", "c">>
KwMandatory == <<"m", "a", "n", "d", "a", "t", "o", "r", "y">>
KwMissing == <<"m", "i", "s", "s", "i", "n", "g">>
KwReported == <<"r", "e", "p", "o", "r", "t", "e", "d">>
KwConflict == <<"c", "o", "n", "f", "l", "i", "c", "t">>
KwLimit == <<"l", "i", "m", "i", "t">>
KwRange == <<"r", "a", "n", "g", "e">>
KwAcceptable == <<"a", "c", "c", "e", "p", "t", "a", "b", "l", "e">>
KwExpected == <<"e", "x", "p", "e", "c", "t", "e", "d">>
KwConstraint == <<"c", "o", "n", "s", "t", "r", "a", "i", "n", "t">>
KwIsNull == <<"i", "s", " ", "n", "u", "l", "l">>
KwIsNotNull == <<"i", "s", " ", "n", "o", "t", " ", "n", "u", "l", "l">>
KwInParen == <<" ", "i", "n", " ", "(">>
KwBetween == <<"b", "e", "t", "w", "e", "e", "n">>
KwGt == <<">">>
KwLt == <<"<">>
KwGte == <<">", "=">>
KwLte == <<"<", "=">>
KwText == <<"t", "e", "x", "t">>
KwString == <<"s", "t", "r", "i", "n", "g">>
KwBoolean == <<"b", "o", "o", "l", "e", "a", "n">>
KwTrue == <<"t", "r", "u", "e">>
KwIn == <<"i", "n">>

\* QCSemanticAnalyzer.CATEGORIES: the names of the fixed enumeration
CATEGORIES ==
  {"NULL_CHECK", "RANGE_CHECK", "UNIQUENESS", "REFERENTIAL_INTEGRITY",
   "CARDINALITY", "DATA_TYPE", "VALUE_LIST", "PATTERN_MATCH", "CONSISTENCY",
   "OUTLIER", "CROSS_FIELD", "TEMPORAL", "MANDATORY", "CONFLICT"}

\* A description string; the DATA_TYPE one is formatted with the lower-cased
\* rule name
Description(text) == [text |-> text, qc_name |-> None]

\* analyze: the semantic dict before categorization
InitialSemantic ==
  [category |-> None, subcategory |-> None, constraints |-> << >>,
   fields_checked |-> << >>, reference_tables |-> << >>,
   description |-> Description("")]

\* semantic with category, subcategory and description set
Categorized(semantic, category, subcategory, text) ==
  [semantic EXCEPT !.category = Some(category),
                   !.subcategory = subcategory,
                   !.description = Description(text)]

\* _categorize_qc, the if/elif chain over the lower-cased name, code and
\* description
CategorizeKeywords(qc_name, qc_code, qc_desc, semantic) ==
  IF Contains(qc_name, KwCardinality) \/ Contains(qc_code, KwFc) THEN
    Categorized(semantic, "CARDINALITY", Some("REQUIRED_FIELD"),
                "Checks if required field is present and not empty")
  ELSE IF Contains(qc_name, KwFieldType) \/ Contains(qc_code, KwFt) THEN
    [semantic EXCEPT
       !.category = Some("DATA_TYPE"),
       !.subcategory =
          IF Contains(qc_name, KwDate) THEN Some("DATE_FORMAT")
          ELSE IF \/ Contains(qc_name, KwNumber)
                  \/ Contains(qc_name, KwInteger)
                  \/ Contains(qc_name, KwDecimal) THEN Some("NUMERIC_TYPE")
          ELSE IF Contains(qc_name, KwCodelist) THEN Some("CODELIST_VALUE")
          ELSE Some("TYPE_VALIDATION"),
       !.description =
          [text |-> "Validates field has correct data type: ",
           qc_name |-> Some(qc_name)]]
  ELSE IF Contains(qc_name, KwUniqueconstraint) \/ Contains(qc_code, KwTu) THEN
    Categorized(semantic, "UNIQUENESS", Some("COMPOSITE_KEY"),
                "Validates uniqueness of field combination")
  ELSE IF Contains(qc_name, KwLink) \/ Contains(qc_code, KwTc) THEN
    Categorized(semantic, "REFERENTIAL_INTEGRITY", Some("FOREIGN_KEY"),
                "Validates reference to another table/list")
  ELSE IF Contains(qc_name, KwMandatory) \/ Contains(qc_desc, KwMandatory) THEN
    Categorized(semantic, "MANDATORY",
                IF Contains(qc_name, KwMissing) THEN Some("MISSING_UNJUSTIFIED")
                ELSE IF Contains(qc_name, KwReported)
                     THEN Some("UNEXPECTED_VALUE")
                ELSE semantic.subcategory,
                "Validates mandatory field rules")
  ELSE IF Contains(qc_name, KwConflict) \/ Contains(qc_desc, KwConflict) THEN
    Categorized(semantic, "CONFLICT", Some("LOGICAL_INCONSISTENCY"),
                "Detects conflicting or contradictory values")
  ELSE IF Contains(qc_name, KwLimit) \/ Contains(qc_name, KwRange) THEN
    Categorized(semantic, "RANGE_CHECK",
                IF Contains(qc_name, KwAcceptable) THEN Some("ACCEPTABLE_RANGE")
                ELSE IF Contains(qc_name, KwExpected)
                     THEN Some("EXPECTED_RANGE")
                ELSE semantic.subcategory,
                "Validates value is within acceptable range")
  ELSE IF Contains(qc_name, KwConstraint) THEN
    Categorized(semantic, "CONSISTENCY", Some("VALUE_CONSTRAINT"),
                "Validates defined constraints")
  ELSE semantic

\* the name keywords looked for in the message
CategorizeMessage(metadata, semantic) ==
  CategorizeKeywords(Lower(metadata.message), Lower(metadata.code),
                     Lower(metadata.description), semantic)

\* _categorize_qc, "Analyze metadata first"
CategorizeMetadata(metadata, semantic) ==
  CategorizeKeywords(Lower(metadata.name), Lower(metadata.code),
                     Lower(metadata.description), semantic)

\* dict.get(key) is truthy: the key is there and its list is not empty
Truthy(dict, key) == key \in DOMAIN dict /\ dict[key] # << >>

\* the column test met by two columns already
ManyColumnsFromTwo(sql_analysis) ==
  Truthy(sql_analysis, "columns") /\ Len(sql_analysis.columns) >= 2

\* sql_analysis.get('columns') and len(sql_analysis['columns']) > 2
ManyColumns(sql_analysis) ==
  Truthy(sql_analysis, "columns") /\ Len(sql_analysis.columns) > 2

\* _categorize_qc, the if/elif chain over the lower-cased predicate and its
\* sql_analysis
CategorizePatterns(raw_sql, sql_analysis, semantic) ==
  IF Contains(raw_sql, KwIsNull) \/ Contains(raw_sql, KwIsNotNull) THEN
    Categorized(semantic, "NULL_CHECK", Some("NULL_VALIDATION"),
                "Checks for null or missing values")
  ELSE IF Contains(raw_sql, KwInParen) THEN
    Categorized(semantic, "VALUE_LIST", Some("ALLOWED_VALUES"),
                "Validates against list of allowed values")
  ELSE IF \/ Contains(raw_sql, KwBetween)
          \/ \E op \in {KwGt, KwLt, KwGte, KwLte} : Contains(raw_sql, op)
  THEN
    Categorized(semantic, "RANGE_CHECK", Some("NUMERIC_RANGE"),
                "Validates numeric range constraints")
  ELSE IF Truthy(sql_analysis, "joins") /\ Len(sql_analysis.joins) > 0 THEN
    Categorized(semantic, "REFERENTIAL_INTEGRITY",
                Some("CROSS_TABLE_VALIDATION"),
                "Validates data across multiple tables")
  ELSE IF ManyColumns(sql_analysis) THEN
    Categorized(semantic, "CROSS_FIELD", Some("MULTI_FIELD_VALIDATION"),
                "Validates relationships between multiple fields")
  ELSE semantic

\* the SQL patterns analysed whether or not the category is determined
CategorizeSqlAlways(expression, semantic) ==
  IF expression.has_sql
  THEN CategorizePatterns(Lower(expression.raw_sql),
                          expression.sql_analysis[1], semantic)
  ELSE semantic

\* _categorize_qc, "Analyze SQL patterns if category not determined": the
\* test is on has_sql alone
CategorizeSql(expression, semantic) ==
  IF semantic.category = None /\ expression.has_sql
  THEN CategorizePatterns(Lower(expression.raw_sql),
                          expression.sql_analysis[1], semantic)
  ELSE semantic

\* _categorize_qc without its default
CategorizeNoDefault(semantic) == semantic

\* _categorize_qc, "Default if still not categorized"
CategorizeDefault(semantic) ==
  IF semantic.category = None THEN
    Categorized(semantic, "CONSISTENCY", Some("GENERAL_VALIDATION"),
                "General data validation rule")
  ELSE semantic

\* _categorize_qc
CategorizeQc(metadata, expression, semantic) ==
  CategorizeDefault(
    CategorizeSql(expression, CategorizeMetadata(metadata, semantic)))

\* The value of a digit character
DigitValue(c) ==
  CHOOSE d \in 0..9 :
    <<"0", "1", "2", "3", "4", "5", "6", "7", "8", "9">>[d + 1] = c

\* int(s) for a str of digits ("" counts 0)
RECURSIVE DecimalValue(_)
DecimalValue(s) ==
  IF s = << >> THEN 0
  ELSE 10 * DecimalValue(SubSeq(s, 1, Len(s) - 1)) + DigitValue(s[Len(s)])

\* s without its trailing "0" characters
RECURSIVE StripZeros(_)
StripZeros(s) ==
  IF s # << >> /\ s[Len(s)] = "0" THEN StripZeros(SubSeq(s, 1, Len(s) - 1))
  ELSE s

RECURSIVE Pow10(_)
Pow10(n) == IF n = 0 THEN 1 ELSE 10 * Pow10(n - 1)

\* float(value) for a str of [0-9.]+ : the number num / den, or ValueError
\* when value has no digit or more than one point
Float(value) ==
  LET points == {i \in 1..Len(value) : value[i] = "."}
      digits == {i \in 1..Len(value) : value[i] \in DigitChars}
  IN IF Cardinality(points) > 1 \/ digits = {}
     THEN Raise("ValueError", "could not convert string to float")
     ELSE LET p == IF points = {} THEN Len(value) + 1
                   ELSE CHOOSE i \in points : TRUE
              whole == SubSeq(value, 1, p - 1)
              frac == StripZeros(From(value, p + 1))
          IN Ok([num |-> DecimalValue(whole \o frac),
                 den |-> Pow10(Len(frac))])

\* The position after the longest run of characters of class from s[i]
Skip(s, i, class) == i + Run(s, i, class)

\* re: (\w+)\s*<op>\s*([0-9.]+) matched at position i of s.  Each of \w+,
\* \s* and [0-9.]+ takes its longest run: a shorter one leaves a character
\* of its own class where the next item of the pattern cannot match.
RangeMatchAt(s, i, op) ==
  LET a == Skip(s, i, WordChars)
      b == Skip(s, a, SpaceChars)
      d == Skip(s, b + Len(op), SpaceChars)
      e == Skip(s, d, NumberChars)
  IN IF a > i /\ StartsAt(s, b, op) /\ e > d
     THEN Some([field |-> SubSeq(s, i, a - 1),
                value |-> SubSeq(s, d, e - 1),
                end |-> e])
     ELSE None

\* re.findall of that pattern on s[i:]: the leftmost match, then the
\* matches of what follows it
RECURSIVE RangeFindAll(_, _, _)
RangeFindAll(s, i, op) ==
  LET starts == {j \in i..Len(s) : RangeMatchAt(s, j, op) # None}
  IN IF starts = {} THEN << >>
     ELSE With(RangeMatchAt(s, Least(starts), op)[1], LAMBDA m :
            << m >> \o RangeFindAll(s, m.end, op))

\* the patterns with each strict comparison ahead of its inclusive one
RangePatternsStrictFirst ==
  << [op |-> KwGt, bound_type |-> "MIN", inclusive |-> "exclusive"],
     [op |-> KwGte, bound_type |-> "MIN", inclusive |-> "inclusive"],
     [op |-> KwLt, bound_type |-> "MAX", inclusive |-> "exclusive"],
     [op |-> KwLte, bound_type |-> "MAX", inclusive |-> "inclusive"] >>

\* the patterns list of _extract_range_constraints
RangePatterns ==
  << [op |-> KwGte, bound_type |-> "MIN", inclusive |-> "inclusive"],
     [op |-> KwGt, bound_type |-> "MIN", inclusive |-> "exclusive"],
     [op |-> KwLte, bound_type |-> "MAX", inclusive |-> "inclusive"],
     [op |-> KwLt, bound_type |-> "MAX", inclusive |-> "exclusive"] >>

\* re.findall of each pattern in turn: the matches in the order the loops
\* of _extract_range_constraints take them, each with its pattern
RangeMatches(raw_sql) ==
  Concat([k \in 1..Len(RangePatterns) |->
            With(RangeFindAll(raw_sql, 1, RangePatterns[k].op),
                 LAMBDA matches :
                   [i \in 1..Len(matches) |->
                      [pattern |-> RangePatterns[k], match |-> matches[i]]])],
         1)

\* The loops of _extract_range_constraints over the matches found: the
\* first float(value) that raises ends them, otherwise every match appends
\* its constraint
RangeOfMatches(found) ==
  LET raising == {i \in 1..Len(found) : Float(found[i].match.value).raised}
  IN IF raising # {} THEN Float(found[Least(raising)].match.value)
     ELSE Ok([i \in 1..Len(found) |->
                [type |-> "RANGE",
                 field |-> found[i].match.field,
                 bound_type |-> found[i].pattern.bound_type,
                 value |-> Float(found[i].match.value).value[1],
                 inclusive |-> found[i].pattern.inclusive = "inclusive"]])

\* _extract_range_constraints
ExtractRangeConstraints(raw_sql) == RangeOfMatches(RangeMatches(raw_sql))

\* re: in\s*\((.*?)\) with re.IGNORECASE matched at position i of s: the
\* group runs to the first ")" and holds no newline
InMatchAt(s, i) ==
  LET a == i + Len(KwIn)
      b == a + Run(s, a, SpaceChars)
      close == {j \in (b + 1)..Len(s) : s[j] = ")"}
  IN IF /\ i + 1 <= Len(s)
        /\ Lower(SubSeq(s, i, i + 1)) = KwIn
        /\ StartsAt(s, b, <<"(">>)
        /\ close # {}
        /\ \A j \in (b + 1)..(Least(close) - 1) : s[j] # "\n"
     THEN Some([group |-> SubSeq(s, b + 1, Least(close) - 1),
                end |-> Least(close) + 1])
     ELSE None

\* re.findall(in_pattern, raw_sql, re.IGNORECASE) on s[i:]
RECURSIVE InFindAll(_, _)
InFindAll(s, i) ==
  LET starts == {j \in i..Len(s) : InMatchAt(s, j) # None}
  IN IF starts = {} THEN << >>
     ELSE With(InMatchAt(s, Least(starts))[1], LAMBDA m :
            << m.group >> \o InFindAll(s, m.end))

\* re: '([^']*)'|(\d+) matched at position i of match: a quoted string
\* (the group is what the quotes hold) or a run of digits
ValueMatchAt(match, i) ==
  LET quotes == {j \in (i + 1)..Len(match) : match[j] = "'"}
      n == Run(match, i, DigitChars)
  IN IF match[i] = "'" /\ quotes # {}
     THEN Some([group |-> SubSeq(match, i + 1, Least(quotes) - 1),
                end |-> Least(quotes) + 1])
     ELSE IF n > 0
     THEN Some([group |-> SubSeq(match, i, i + n - 1), end |-> i + n])
     ELSE None

\* [v[0] or v[1] for v in re.findall(r"'([^']*)'|(\d+)", match)] on
\* match[i:]
RECURSIVE ValuesOf(_, _)
ValuesOf(match, i) ==
  LET starts == {j \in i..Len(match) : ValueMatchAt(match, j) # None}
  IN IF starts = {} THEN << >>
     ELSE With(ValueMatchAt(match, Least(starts))[1], LAMBDA m :
            << m.group >> \o ValuesOf(match, m.end))

\* the loop of _extract_value_list_constraints over the IN clauses
RECURSIVE ValueListOfMatches(_, _)
ValueListOfMatches(matches, i) ==
  IF i > Len(matches) THEN << >>
  ELSE LET value_list == ValuesOf(matches[i], 1)
       IN (IF value_list # << >>
           THEN << [type |-> "VALUE_LIST",
                    allowed_values |-> value_list,
                    operator |-> "IN"] >>
           ELSE << >>) \o ValueListOfMatches(matches, i + 1)

\* _extract_value_list_constraints
ExtractValueListConstraints(raw_sql) ==
  ValueListOfMatches(InFindAll(raw_sql, 1), 1)

\* str.split(): the maximal runs of non-whitespace of s[i:]
RECURSIVE Split(_, _)
Split(s, i) ==
  LET starts == {j \in i..Len(s) : s[j] \notin SpaceChars}
  IN IF starts = {} THEN << >>
     ELSE With(Skip(s, Least(starts), NonSpaceChars), LAMBDA end :
            << SubSeq(s, Least(starts), end - 1) >> \o Split(s, end))

\* re.sub(r'[,.]', '', word): every comma and period removed
SubCommaPeriod(word) == SelectSeq(word, LAMBDA c : c \notin {",", "."})

\* the loop of _extract_unique_fields over the words
RECURSIVE UniqueFieldsOf(_, _)
UniqueFieldsOf(words, i) ==
  IF i > Len(words) THEN << >>
  ELSE LET word == words[i]
           field == SubCommaPeriod(word)
       IN (IF /\ word[1] \in LowerChars
              /\ \E k \in 1..Len(word) : word[k] \in UpperChars
              /\ field # << >>
           THEN << field >> ELSE << >>) \o UniqueFieldsOf(words, i + 1)

\* _extract_unique_fields
ExtractUniqueFields(description) == UniqueFieldsOf(Split(description, 1), 1)

\* The chain of _extract_data_type with integer tested before date
DataTypeOfIntegerFirst(qc_name) ==
  IF Contains(qc_name, KwInteger) THEN "INTEGER"
  ELSE IF Contains(qc_name, KwDate) THEN "DATE"
  ELSE IF Contains(qc_name, KwDecimal) \/ Contains(qc_name, KwNumber)
       THEN "DECIMAL"
  ELSE IF Contains(qc_name, KwText) \/ Contains(qc_name, KwString)
       THEN "TEXT"
  ELSE IF Contains(qc_name, KwBoolean) THEN "BOOLEAN"
  ELSE "UNKNOWN"

\* _extract_data_type, the if/elif chain over the lower-cased name
DataTypeOf(qc_name) ==
  IF Contains(qc_name, KwDate) THEN "DATE"
  ELSE IF Contains(qc_name, KwInteger) THEN "INTEGER"
  ELSE IF Contains(qc_name, KwDecimal) \/ Contains(qc_name, KwNumber)
       THEN "DECIMAL"
  ELSE IF Contains(qc_name, KwText) \/ Contains(qc_name, KwString)
       THEN "TEXT"
  ELSE IF Contains(qc_name, KwBoolean) THEN "BOOLEAN"
  ELSE "UNKNOWN"

\* _extract_data_type
ExtractDataType(name) == DataTypeOf(Lower(name))

\* col.split('.')[-1]
LastSegment(col) ==
  LET points == {i \in 1..Len(col) : col[i] = "."}
  IN IF points = {} THEN col
     ELSE From(col, 1 + CHOOSE i \in points : \A j \in points : j <= i)

\* the membership test that never finds x
NeverInList(x, list) == FALSE

\* x in list
InList(x, list) == \E i \in 1..Len(list) : list[i] = x

\* _extract_constraints, the loop "Extract additional fields from SQL"
RECURSIVE AddColumns(_, _, _)
AddColumns(columns, i, fields_checked) ==
  IF i > Len(columns) THEN fields_checked
  ELSE LET col_name == LastSegment(columns[i])
       IN AddColumns(columns, i + 1,
            IF InList(col_name, fields_checked) THEN fields_checked
            ELSE Append(fields_checked, col_name))

\* _extract_constraints, up to "Extract constraints based on category"
FieldsChecked(metadata, expression, semantic) ==
  LET field == metadata.field
      sql_analysis == expression.sql_analysis
      first == IF field # << >> THEN Append(semantic.fields_checked, field)
               ELSE semantic.fields_checked
  IN IF sql_analysis # None /\ sql_analysis[1].parsed_successfully
     THEN AddColumns(sql_analysis[1].columns, 1, first)
     ELSE first

\* the NOT_NULL constraint on the first column of the predicate
NotNullOnColumn(metadata, expression) ==
  [type |-> "NOT_NULL",
   field |-> IF expression.sql_analysis # None
                /\ Truthy(expression.sql_analysis[1], "columns")
             THEN expression.sql_analysis[1].columns[1]
             ELSE metadata.field,
   required |-> TRUE]

\* _extract_constraints, the dict appended for NULL_CHECK and CARDINALITY
NotNullConstraint(metadata, expression) ==
  [type |-> "NOT_NULL", field |-> metadata.field, required |-> TRUE]

\* the columns of the analysis taken for its tables
ReferenceColumns(sql_analysis, sem) ==
  IF sql_analysis # None /\ Truthy(sql_analysis[1], "columns")
  THEN sql_analysis[1].columns
  ELSE sem.reference_tables

\* _extract_constraints, REFERENTIAL_INTEGRITY: reference_tables after
\* "if sql_analysis and sql_analysis.get('tables')"
ReferenceTables(sql_analysis, sem) ==
  IF sql_analysis # None /\ Truthy(sql_analysis[1], "tables")
  THEN sql_analysis[1].tables
  ELSE sem.reference_tables

\* Constraints taken from the comparisons of the predicate whatever the
\* category
RangeConstraintsAlways(metadata, expression, raw_sql, sem) ==
  Then(ExtractRangeConstraints(raw_sql), LAMBDA range :
    Ok([sem EXCEPT !.constraints = @ \o range]))

\* _extract_constraints, "Extract constraints based on category", on the
\* lower-cased predicate raw_sql and the semantic dict sem
CategoryConstraints(metadata, expression, raw_sql, sem) ==
  LET field == metadata.field
      sql_analysis == expression.sql_analysis
      category == sem.category
  IN
  IF category = Some("RANGE_CHECK") THEN
    Then(ExtractRangeConstraints(raw_sql), LAMBDA range :
      Ok([sem EXCEPT !.constraints = @ \o range]))
  ELSE IF category = Some("VALUE_LIST") THEN
    Ok([sem EXCEPT !.constraints = @ \o ExtractValueListConstraints(raw_sql)])
  ELSE IF category = Some("NULL_CHECK") \/ category = Some("CARDINALITY") THEN
    Ok([sem EXCEPT !.constraints =
          Append(@, NotNullConstraint(metadata, expression))])
  ELSE IF category = Some("UNIQUENESS") THEN
    Ok([sem EXCEPT !.constraints = Append(@,
          [type |-> "UNIQUE",
           fields |-> ExtractUniqueFields(metadata.description),
           scope |-> "TABLE"])])
  ELSE IF category = Some("REFERENTIAL_INTEGRITY") THEN
    LET reference_tables == ReferenceTables(sql_analysis, sem)
    IN Ok([sem EXCEPT
             !.reference_tables = reference_tables,
             !.constraints = Append(@,
                [type |-> "FOREIGN_KEY", field |-> field,
                 references |-> reference_tables])])
  ELSE IF category = Some("DATA_TYPE") THEN
    Ok([sem EXCEPT !.constraints = Append(@,
          [type |-> "DATA_TYPE", field |-> field,
           expected_type |-> ExtractDataType(metadata.name)])])
  ELSE Ok(sem)

\* _extract_constraints: the semantic dict, or the exception of
\* _extract_range_constraints
ExtractConstraints(metadata, expression, semantic) ==
  CategoryConstraints(metadata, expression, Lower(expression.raw_sql),
    [semantic EXCEPT
       !.fields_checked = FieldsChecked(metadata, expression, semantic)])

\* An analyze that returns the rule without its sql_analysis
AnalyzeForgettingSql(qc_rule) ==
  Then(ExtractConstraints(qc_rule.metadata, qc_rule.expression,
         CategorizeQc(qc_rule.metadata, qc_rule.expression, InitialSemantic)),
       LAMBDA semantic :
         Ok([metadata |-> qc_rule.metadata,
             expression |->
               [qc_rule.expression EXCEPT !.sql_analysis = None],
             semantic_analysis |-> semantic]))

\* An analyze that goes on from the lists of the semantic_analysis the rule
\* already carries
AnalyzeExtendingLists(qc_rule) ==
  Then(ExtractConstraints(qc_rule.metadata, qc_rule.expression,
         CategorizeQc(qc_rule.metadata, qc_rule.expression,
           IF "semantic_analysis" \in DOMAIN qc_rule
           THEN [InitialSemantic EXCEPT
                   !.constraints = qc_rule.semantic_analysis.constraints,
                   !.fields_checked = qc_rule.semantic_analysis.fields_checked]
           ELSE InitialSemantic)),
       LAMBDA semantic :
         Ok([metadata |-> qc_rule.metadata,
             expression |-> qc_rule.expression,
             semantic_analysis |-> semantic]))

\* QCSemanticAnalyzer.analyze: the rule with its semantic_analysis, or the
\* exception raised on the way.  The rule comes without the key
\* semantic_analysis, or with one that is overwritten.
Analyze(qc_rule) ==
  Then(ExtractConstraints(qc_rule.metadata, qc_rule.expression,
         CategorizeQc(qc_rule.metadata, qc_rule.expression, InitialSemantic)),
       LAMBDA semantic :
         Ok([metadata |-> qc_rule.metadata,
             expression |-> qc_rule.expression,
             semantic_analysis |-> semantic]))

(***************************************************************************)
(* QCParser                                                                *)
(***************************************************************************)

\* The columns _parse_qc_rule reads
Columns ==
  {"Table", "Field", "Code", "QC Name", "QC Description", "Message",
   "Type of QC", "Level Error", "Creation Mode", "Status", "Valid",
   "Expression"}

\* row.get(key, ""): the cell, "" when the row has no such key.  A cell is
\* a str or None: csv.DictReader gives None to the columns a short line
\* does not reach.
Get(row, key) == IF key \in DOMAIN row THEN row[key] ELSE Some(<< >>)

\* bool(x) of the Expression cell as it stands in the file
HasSqlUntrimmed(cell) == cell # << >>

\* bool(x.strip()) of the Expression cell
HasSql(cell) == Strip(cell) # << >>

\* _parse_qc_rule, the dict literal: x.strip() raises AttributeError when a
\* cell is None
BuildRule(row) ==
  LET text(key) == Strip(Get(row, key)[1])
      flag(key) == Lower(text(key)) = KwTrue
  IN IF \E key \in Columns : Get(row, key) = None
     THEN Raise("AttributeError",
                "'NoneType' object has no attribute 'strip'")
     ELSE Ok([metadata |->
                [table |-> text("Table"),
                 field |-> text("Field"),
                 code |-> text("Code"),
                 name |-> text("QC Name"),
                 description |-> text("QC Description"),
                 message |-> text("Message"),
                 type |-> text("Type of QC"),
                 level |-> text("Level Error"),
                 creation_mode |-> flag("Creation Mode"),
                 status |-> flag("Status"),
                 valid |-> flag("Valid")],
              expression |->
                [raw_sql |-> text("Expression"),
                 has_sql |-> HasSql(Get(row, "Expression")[1]),
                 sql_analysis |-> None]])

\* _parse_qc_rule, "Parse SQL if present": a new extractor each time
ParseSql(qc_rule) ==
  IF qc_rule.expression.has_sql
  THEN Then(Extract(SQLSemanticExtractor, qc_rule.expression.raw_sql),
            LAMBDA extracted :
              Ok([qc_rule EXCEPT
                    !.expression.sql_analysis = Some(extracted.result)]))
  ELSE Ok(qc_rule)

\* analyze_qc_rules, the loop from rule i on: analyze on each rule in turn,
\* in place; an exception leaves the rules from the raising one on as they
\* were
RECURSIVE AnalyzeFrom(_, _)
AnalyzeFrom(rules, i) ==
  IF i > Len(rules) THEN Ok(rules)
  ELSE With(Analyze(rules[i]), LAMBDA call :
         IF call.raised
         THEN [raised |-> TRUE, exc |-> call.exc, msg |-> call.msg,
               value |-> Some(rules)]
         ELSE AnalyzeFrom([rules EXCEPT ![i] = call.value[1]], i + 1))

\* _parse_qc_rule: the annotated record, or the exception that escapes
ParseQcRule(row) == Then(Then(BuildRule(row), ParseSql), Analyze)

\* d[key] = 1 on a dict of counts: the key is marked, not counted
MarkKey(d, key) ==
  [k \in DOMAIN d \cup {key} |-> IF k = key THEN 1 ELSE d[k]]

\* d[key] = d.get(key, 0) + 1 on a dict of counts
CountKey(d, key) ==
  [k \in DOMAIN d \cup {key} |->
     IF k = key THEN (IF key \in DOMAIN d THEN d[key] ELSE 0) + 1 ELSE d[k]]

\* get_statistics, the dict before the loop
InitialStats(rules) ==
  [total_rules |-> Len(rules),
   by_type |-> << >>,
   by_level |-> << >>,
   by_table |-> << >>,
   with_sql |-> 0,
   without_sql |-> 0,
   sql_parse_errors |-> 0,
   complexity |-> [simple |-> 0, medium |-> 0, complex |-> 0]]

\* "SQL statistics" whose buckets end at 10 and 30 inclusive
CountSqlInclusive(st, sql_analysis) ==
  IF sql_analysis # None /\ ~sql_analysis[1].parsed_successfully
  THEN [st EXCEPT !.sql_parse_errors = @ + 1]
  ELSE IF sql_analysis # None /\ sql_analysis[1].parsed_successfully
  THEN IF sql_analysis[1].complexity_score <= 10
       THEN [st EXCEPT !.complexity.simple = @ + 1]
       ELSE IF sql_analysis[1].complexity_score <= 30
       THEN [st EXCEPT !.complexity.medium = @ + 1]
       ELSE [st EXCEPT !.complexity.complex = @ + 1]
  ELSE st

\* get_statistics, "SQL statistics" of one rule with a predicate: the
\* parse-error count or one complexity bucket
CountSql(st, sql_analysis) ==
  IF sql_analysis # None /\ ~sql_analysis[1].parsed_successfully
  THEN [st EXCEPT !.sql_parse_errors = @ + 1]
  ELSE IF sql_analysis # None /\ sql_analysis[1].parsed_successfully
  THEN IF sql_analysis[1].complexity_score < 10
       THEN [st EXCEPT !.complexity.simple = @ + 1]
       ELSE IF sql_analysis[1].complexity_score < 30
       THEN [st EXCEPT !.complexity.medium = @ + 1]
       ELSE [st EXCEPT !.complexity.complex = @ + 1]
  ELSE st

\* get_statistics, one turn of the loop
CountRule(st, rule) ==
  With([st EXCEPT
          !.by_type = CountKey(@, rule.metadata.type),
          !.by_level = CountKey(@, rule.metadata.level),
          !.by_table = CountKey(@, rule.metadata.table)],
       LAMBDA counted :
         IF rule.expression.has_sql
         THEN CountSql([counted EXCEPT !.with_sql = @ + 1],
                       rule.expression.sql_analysis)
         ELSE [counted EXCEPT !.without_sql = @ + 1])

\* get_statistics, the loop over the first n rules
RECURSIVE CountRules(_, _)
CountRules(rules, n) ==
  IF n = 0 THEN InitialStats(rules)
  ELSE CountRule(CountRules(rules, n - 1), rules[n])

\* QCParser.get_statistics
GetStatistics(rules) == CountRules(rules, Len(rules))

(***************************************************************************)
(* The CSV files of the model                                              *)
(***************************************************************************)

\* rule names
\* ""
NameNone == << >>
\* "Cardinality Link"
NameCardinalityLink ==
  <<"C", "a", "r", "d", "i", "n", "a", "l", "i", "t", "y", " ", "L", "i",
    "n", "k">>
\* "Field Type UniqueConstraint"
NameFieldTypeUnique ==
  <<"F", "i", "e", "l", "d", " ", "T", "y", "p", "e", " ", "U", "n", "i",
    "q", "u", "e", "C", "o", "n", "s", "t", "r", "a", "i", "n", "t">>
\* "UNIQUECONSTRAINT link"
NameUniqueLink ==
  <<"U", "N", "I", "Q", "U", "E", "C", "O", "N", "S", "T", "R", "A", "I",
    "N", "T", " ", "l", "i", "n", "k">>
\* "Link Mandatory"
NameLinkMandatory ==
  <<"L", "i", "n", "k", " ", "M", "a", "n", "d", "a", "t", "o", "r", "y">>
\* "Mandatory Conflict"
NameMandatoryConflict ==
  <<"M", "a", "n", "d", "a", "t", "o", "r", "y", " ", "C", "o", "n", "f",
    "l", "i", "c", "t">>
\* "Conflict Limit"
NameConflictLimit ==
  <<"C", "o", "n", "f", "l", "i", "c", "t", " ", "L", "i", "m", "i", "t">>
\* "Range Constraint"
NameRangeConstraint ==
  <<"R", "a", "n", "g", "e", " ", "C", "o", "n", "s", "t", "r", "a", "i",
    "n", "t">>
\* "Constraint"
NameConstraint == <<"C", "o", "n", "s", "t", "r", "a", "i", "n", "t">>
\* "Check"
NameCheck == <<"C", "h", "e", "c", "k">>

\* "Date"
NameDate == <<"D", "a", "t", "e">>
\* "Integer Date"
NameIntegerDate ==
  <<"I", "n", "t", "e", "g", "e", "r", " ", "D", "a", "t", "e">>
\* "Number Integer"
NameNumberInteger ==
  <<"N", "u", "m", "b", "e", "r", " ", "I", "n", "t", "e", "g", "e", "r">>
\* "Decimal Text"
NameDecimalText ==
  <<"D", "e", "c", "i", "m", "a", "l", " ", "T", "e", "x", "t">>
\* "Number"
NameNumber == <<"N", "u", "m", "b", "e", "r">>
\* "String Boolean"
NameStringBoolean ==
  <<"S", "t", "r", "i", "n", "g", " ", "B", "o", "o", "l", "e", "a", "n">>
\* "BOOLEAN"
NameBoolean == <<"B", "O", "O", "L", "E", "A", "N">>

\* rule codes
\* ""
CodeNone == << >>
\* "FC1"
CodeFc == <<"F", "C", "1">>
\* "FTU"
CodeFtTu == <<"F", "T", "U">>
\* "TUTC"
CodeTuTc == <<"T", "U", "T", "C">>
\* " tc2 "
CodeTc == <<" ", "t", "c", "2", " ">>

\* rule descriptions
\* ""
DescNone == << >>
\* "Mandatory field"
DescMandatory ==
  <<"M", "a", "n", "d", "a", "t", "o", "r", "y", " ", "f", "i", "e", "l",
    "d">>
\* "in CONFLICT with x"
DescConflict ==
  <<"i", "n", " ", "C", "O", "N", "F", "L", "I", "C", "T", " ", "w", "i",
    "t", "h", " ", "x">>
\* "aB, c.dE. Fg h,"
DescUnique ==
  <<"a", "B", ",", " ", "c", ".", "d", "E", ".", " ", "F", "g", " ", "h",
    ",">>

\* the other cells
\* "WaterBody"
CellTableA == <<"W", "a", "t", "e", "r", "B", "o", "d", "y">>
\* "Station"
CellTableB == <<"S", "t", "a", "t", "i", "o", "n">>
\* "resultUom"
CellFieldA == <<"r", "e", "s", "u", "l", "t", "U", "o", "m">>
\* "value"
CellFieldB == <<"v", "a", "l", "u", "e">>
\* "Mandatory value"
CellMessageA ==
  <<"M", "a", "n", "d", "a", "t", "o", "r", "y", " ", "v", "a", "l", "u",
    "e">>
\* "FIELD"
CellTypeField == <<"F", "I", "E", "L", "D">>
\* "TABLE"
CellTypeTable == <<"T", "A", "B", "L", "E">>
\* "ERROR"
CellLevelError == <<"E", "R", "R", "O", "R">>
\* "BLOCKER"
CellLevelBlocker == <<"B", "L", "O", "C", "K", "E", "R">>
\* "true"
CellTrue == <<"t", "r", "u", "e">>
\* " TRUE "
CellTruePadded == <<" ", "T", "R", "U", "E", " ">>
\* "false"
CellFalse == <<"f", "a", "l", "s", "e">>
\* "yes"
CellYes == <<"y", "e", "s">>

\* A row of a file whose header has the twelve columns
Row(table, field, code, name, description, message, type, level, creation_mode, status, valid, expression) ==
  [key \in Columns |->
     CASE key = "Table" -> Some(table)
       [] key = "Field" -> Some(field)
       [] key = "Code" -> Some(code)
       [] key = "QC Name" -> Some(name)
       [] key = "QC Description" -> Some(description)
       [] key = "Message" -> Some(message)
       [] key = "Type of QC" -> Some(type)
       [] key = "Level Error" -> Some(level)
       [] key = "Creation Mode" -> Some(creation_mode)
       [] key = "Status" -> Some(status)
       [] key = "Valid" -> Some(valid)
       [] key = "Expression" -> Some(expression)]

\* A row that differs in name, code, description and predicate only
RuleRow(name, code, description, expression) ==
  Row(CellTableA, CellFieldA, code, name, description, CellMessageA,
      CellTypeField, CellLevelError, CellTrue, CellTruePadded, CellFalse,
      expression)

\* The same rule in another table, on another field, with other flags
OtherRow(name, code, description, expression) ==
  Row(CellTableB, CellFieldB, code, name, description, << >>,
      CellTypeTable, CellLevelBlocker, CellYes, << >>, CellTrue,
      expression)

\* A short line: the cells from column key on are None
ShortRow(row, keys) ==
  [key \in Columns |-> IF key \in keys THEN None ELSE row[key]]

\* A row of a file whose header lacks the columns keys
NarrowRow(row, keys) == [key \in Columns \ keys |-> row[key]]

Names ==
  {NameNone, NameCardinalityLink, NameFieldTypeUnique, NameUniqueLink,
   NameLinkMandatory, NameMandatoryConflict, NameConflictLimit,
   NameRangeConstraint, NameConstraint, NameCheck}

Codes == {CodeNone, CodeFc, CodeFtTu, CodeTuTc, CodeTc}

Descriptions == {DescNone, DescMandatory, DescConflict}

Expressions ==
  {SqlEmpty, SqlBlank, SqlNull, SqlRange, SqlIn, SqlBetween, SqlGt,
   SqlPaddedGt, SqlJoin, SqlJoinNull, SqlThree, SqlTwo, SqlAgg, SqlMixed,
   SqlTwoAggs, SqlAggWhere, SqlBadNull, SqlBadIn, SqlBadNumber, SqlBadPlain}

\* The rows of the one-row files: every rule of the sets above
RuleRows ==
  {RuleRow(name, code, description, expression) :
     name \in Names, code \in Codes, description \in Descriptions,
     expression \in Expressions}

\* Names of data type rules
TypeNames ==
  {NameDate, NameIntegerDate, NameNumberInteger, NameDecimalText, NameNumber,
   NameStringBoolean, NameBoolean}

\* More rows of one-row files: uniqueness rules whose description names
\* fields, and data type rules
MoreRows ==
  {RuleRow(NameUniqueLink, CodeNone, DescUnique, SqlEmpty),
   OtherRow(NameCheck, CodeTuTc, DescUnique, SqlGt)}
    \cup {RuleRow(name, CodeFtTu, DescNone, SqlEmpty) : name \in TypeNames}

\* The rows of the longer files
BatchRows ==
  {RuleRow(NameCheck, CodeNone, DescNone, SqlGt),
   OtherRow(NameCheck, CodeNone, DescNone, SqlGt),
   RuleRow(NameCheck, CodeNone, DescNone, SqlJoinNull),
   RuleRow(NameNone, CodeNone, DescNone, SqlBadNumber),
   OtherRow(NameCardinalityLink, CodeNone, DescNone, SqlBlank),
   RuleRow(NameLinkMandatory, CodeNone, DescNone, SqlJoin),
   OtherRow(NameLinkMandatory, CodeTc, DescNone, SqlBadPlain),
   ShortRow(RuleRow(NameCheck, CodeNone, DescNone, SqlEmpty),
            {"Valid", "Expression"}),
   NarrowRow(RuleRow(NameCheck, CodeNone, DescNone, SqlEmpty),
             Columns \ {"QC Name", "Expression"})}

\* The longest file of several rows
MaxRows == 3

\* The files: one row of RuleRows, or up to MaxRows rows of BatchRows
Files ==
  {<< row >> : row \in RuleRows \cup MoreRows}
    \cup UNION {[1..n -> BatchRows] : n \in 0..MaxRows}

(***************************************************************************)
(* The state: one QCParser on one file, and one SQLSemanticExtractor that  *)
(* a caller of the class holds                                             *)
(***************************************************************************)
VARIABLES
  csv_rows,   \* the rows csv.DictReader yields for csv_path
  qc_rules,   \* QCParser.qc_rules
  pc,         \* "new", "reading" (inside parse), "returned", "raised",
              \* "analyzed" (analyze_qc_rules has run on the records)
  reader,     \* the number of rows the reader has yielded
  raised,     \* the exception that escaped parse(), if any
  extractor,  \* the fields of the caller's SQLSemanticExtractor
  analyses,   \* what each extract() call on it was given and returned
  stats,      \* what get_statistics() returned, if it was called
  request,    \* the POST /api/v1/parse request the handler serves, if any
  qc_temp,    \* the handler's temporary file: "none", "exists", "deleted"
  response    \* the handler's response, once it has returned

vars ==
  << csv_rows, qc_rules, pc, reader, raised, extractor, analyses, stats,
     request, qc_temp, response >>

\* What the parser leaves alone
others == << extractor, analyses, stats, request, qc_temp, response >>

\* QCParser.__init__
Init ==
  /\ csv_rows \in Files
  /\ qc_rules = << >>
  /\ pc = "new"
  /\ reader = 0
  /\ raised = None
  /\ extractor = SQLSemanticExtractor
  /\ analyses = << >>
  /\ stats = None
  /\ request = None
  /\ qc_temp = "none"
  /\ response = None

\* parse(): open the file and make the reader
ParseOpen ==
  /\ pc = "new"
  /\ pc' = "reading"
  /\ reader' = 0
  /\ UNCHANGED << csv_rows, qc_rules, raised, others >>

\* A "Parse SQL if present" that runs on the extractor shared
ParseSqlShared(shared, qc_rule) ==
  IF qc_rule.expression.has_sql
  THEN Then(Extract(shared, qc_rule.expression.raw_sql),
            LAMBDA extracted :
              Ok([qc_rule EXCEPT
                    !.expression.sql_analysis = Some(extracted.result)]))
  ELSE Ok(qc_rule)

\* The extractor after it has run on the predicate of the last record
ExtractorOfLastRow ==
  IF qc_rules # << >> /\ qc_rules[Len(qc_rules)].expression.has_sql
  THEN Extract(SQLSemanticExtractor,
               qc_rules[Len(qc_rules)].expression.raw_sql).value[1].self
  ELSE SQLSemanticExtractor

\* A turn of the for loop that keeps the extractor of the row before
ParseRowSharedExtractor ==
  /\ pc = "reading"
  /\ reader < Len(csv_rows)
  /\ \E shared \in {ExtractorOfLastRow} :
       \E qc_rule \in {Then(Then(BuildRule(csv_rows[reader + 1]),
                                 LAMBDA built : ParseSqlShared(shared, built)),
                            Analyze)} :
          /\ ~qc_rule.raised
          /\ qc_rules' = Append(qc_rules, qc_rule.value[1])
  /\ reader' = reader + 1
  /\ UNCHANGED << csv_rows, pc, raised, others >>

\* parse(): one turn of the for loop, _parse_qc_rule returns
ParseRow ==
  /\ pc = "reading"
  /\ reader < Len(csv_rows)
  /\ \E qc_rule \in {ParseQcRule(csv_rows[reader + 1])} :
        /\ ~qc_rule.raised
        /\ qc_rules' = Append(qc_rules, qc_rule.value[1])
  /\ reader' = reader + 1
  /\ UNCHANGED << csv_rows, pc, raised, others >>

\* parse(): one turn of the for loop, _parse_qc_rule raises and the
\* exception leaves parse()
ParseRowRaises ==
  /\ pc = "reading"
  /\ reader < Len(csv_rows)
  /\ \E qc_rule \in {ParseQcRule(csv_rows[reader + 1])} :
        /\ qc_rule.raised
        /\ raised' = Some([exc |-> qc_rule.exc, msg |-> qc_rule.msg])
  /\ pc' = "raised"
  /\ reader' = reader + 1
  /\ UNCHANGED << csv_rows, qc_rules, others >>

\* parse(): the reader is exhausted, return self.qc_rules
ParseReturn ==
  /\ pc = "reading"
  /\ reader = Len(csv_rows)
  /\ pc' = "returned"
  /\ UNCHANGED << csv_rows, qc_rules, reader, raised, others >>

\* get_statistics() on the parser after parse() has returned or raised
CallGetStatistics ==
  /\ pc \in {"returned", "raised"}
  /\ stats = None
  /\ stats' = Some(GetStatistics(qc_rules))
  /\ UNCHANGED << csv_rows, qc_rules, pc, reader, raised, extractor,
                  analyses, request, qc_temp, response >>

Next ==
  ParseOpen \/ ParseRow \/ ParseRowRaises \/ ParseReturn \/ CallGetStatistics

Spec == Init /\ [][Next]_vars

(***************************************************************************)
(* A caller that calls parse() again on the same QCParser                  *)
(***************************************************************************)

\* The most parse() calls on one parser
MaxParses == 2

\* parse() called again after it has returned: the file is opened again,
\* qc_rules is the list __init__ made
ParseAgain ==
  /\ pc = "returned"
  /\ Len(qc_rules) < MaxParses * Len(csv_rows)
  /\ pc' = "reading"
  /\ reader' = 0
  /\ UNCHANGED << csv_rows, qc_rules, raised, others >>

ReparseNext == Next \/ ParseAgain

ReparseSpec == Init /\ [][ReparseNext]_vars

(***************************************************************************)
(* A caller that hands the records of the parser to analyze_qc_rules       *)
(***************************************************************************)

\* analyze_qc_rules(parser.qc_rules) after parse() has returned: the
\* records are analyzed again, in place
AnalyzeQcRules ==
  /\ pc = "returned"
  /\ \E call \in {AnalyzeFrom(qc_rules, 1)} :
       /\ qc_rules' = call.value[1]
       /\ pc' = IF call.raised THEN "raised" ELSE "analyzed"
       /\ raised' = IF call.raised
                    THEN Some([exc |-> call.exc, msg |-> call.msg])
                    ELSE raised
  /\ UNCHANGED << csv_rows, reader, others >>

ReanalyzeNext == Next \/ AnalyzeQcRules

ReanalyzeSpec == Init /\ [][ReanalyzeNext]_vars

(***************************************************************************)
(* The handler of POST /api/v1/parse: the uploaded QC file is csv_rows,    *)
(* the parser it makes is the QCParser of the variables above              *)
(***************************************************************************)

\* file names of the uploads, and a table name with a blank
\* "QC.csv"
FileQc == <<"Q", "C", ".", "c", "s", "v">>
\* "QC.txt"
FileQcText == <<"Q", "C", ".", "t", "x", "t">>
\* "WaterBody.csv"
FileWaterBody ==
  <<"W", "a", "t", "e", "r", "B", "o", "d", "y", ".", "c", "s", "v">>
\* "Station.CSV"
FileStation == <<"S", "t", "a", "t", "i", "o", "n", ".", "C", "S", "V">>
\* "notes.txt"
FileNotes == <<"n", "o", "t", "e", "s", ".", "t", "x", "t">>
\* "Water Body.csv"
FileSpaced ==
  <<"W", "a", "t", "e", "r", " ", "B", "o", "d", "y", ".", "c", "s", "v">>
\* "Water Body"
CellTableSpaced == <<"W", "a", "t", "e", "r", " ", "B", "o", "d", "y">>

\* A rule of the table "Water Body"
SpacedRow ==
  Row(CellTableSpaced, CellFieldA, CodeNone, NameCheck, DescNone,
      CellMessageA, CellTypeField, CellLevelError, CellTrue, CellTrue,
      CellTrue, SqlGt)

\* The rows of the uploaded QC files
ServiceRows ==
  {RuleRow(NameCheck, CodeNone, DescNone, SqlGt),
   OtherRow(NameCardinalityLink, CodeNone, DescNone, SqlBlank),
   SpacedRow,
   ShortRow(RuleRow(NameCheck, CodeNone, DescNone, SqlEmpty),
            {"Valid", "Expression"})}

\* The longest uploaded QC file and the most table files of a request
MaxServiceRows == 2
MaxTableFiles == 2

ServiceFiles == UNION {[1..n -> ServiceRows] : n \in 0..MaxServiceRows}

\* request.files: qc_file is the file name of the part of that name, None
\* without one; table_files the file names of the parts table_files[];
\* table_file that of the part table_file
TableUploads ==
  {[table_files |-> files, table_file |-> None] :
     files \in UNION {[1..n -> {<< >>, FileWaterBody, FileStation, FileNotes,
                                FileSpaced}] : n \in 0..MaxTableFiles}}
    \cup {[table_files |-> << >>, table_file |-> Some(FileStation)]}

Requests ==
  {[qc_file |-> qc_file, table_files |-> tables.table_files,
    table_file |-> tables.table_file] :
     qc_file \in {None, Some(<< >>), Some(FileQcText), Some(FileQc)},
     tables \in TableUploads}

\* allowed_file
AllowedFile(filename) ==
  /\ \E i \in 1..Len(filename) : filename[i] = "."
  /\ Lower(LastSegment(filename)) = <<"c", "s", "v">>

\* "_".join(words)
RECURSIVE JoinUnderscore(_)
JoinUnderscore(words) ==
  IF Len(words) = 0 THEN << >>
  ELSE IF Len(words) = 1 THEN words[1]
  ELSE words[1] \o << "_" >> \o JoinUnderscore(Tail(words))

\* werkzeug.utils.secure_filename on an ASCII name: path separators become
\* blanks, the words are joined with "_", every character outside
\* [A-Za-z0-9_.-] is removed, and leading and trailing "." and "_" go
SecureFilename(filename) ==
  With(SelectSeq(
         JoinUnderscore(
           Split([i \in 1..Len(filename) |->
                    IF filename[i] = "/" THEN " " ELSE filename[i]], 1)),
         LAMBDA c : c \in WordChars \cup {".", "-"}),
       LAMBDA name :
         LET keep == {i \in 1..Len(name) : name[i] \notin {".", "_"}}
         IN IF keep = {} THEN << >>
            ELSE SubSeq(name, Least(keep),
                        CHOOSE i \in keep : \A j \in keep : j <= i))

\* os.path.splitext(name)[0]: the name up to its last dot, the whole name
\* when only leading dots are left of it
SplitextRoot(name) ==
  LET dots == {i \in 1..Len(name) :
                 /\ name[i] = "."
                 /\ \E j \in 1..(i - 1) : name[j] # "."}
  IN IF dots = {} THEN name
     ELSE SubSeq(name, 1, (CHOOSE i \in dots : \A j \in dots : j <= i) - 1)

\* The table files of the request: table_files[], else the one table_file
TableFiles(req) ==
  IF req.table_files # << >> THEN req.table_files
  ELSE IF req.table_file # None THEN << req.table_file[1] >>
  ELSE << >>

\* The message of the 400 response of the request, None when it is valid
ValidationError(req) ==
  IF req.qc_file = None THEN Some("qc_file is required")
  ELSE IF req.qc_file[1] = << >> THEN Some("No QC file selected")
  ELSE IF ~AllowedFile(req.qc_file[1])
  THEN Some("QC file must be a CSV file")
  ELSE IF TableFiles(req) = << >>
  THEN Some("At least one table file is required")
  ELSE None

\* by_level and by_type of a table summary: the loop over the first n rules
RECURSIVE CountBy(_, _, _)
CountBy(rules, key, n) ==
  IF n = 0 THEN << >>
  ELSE CountKey(CountBy(rules, key, n - 1), rules[n].metadata[key])

\* An entry of tables_data that lists every rule of the QC file
TableEntryUnfiltered(filename, all_rules) ==
  LET table_filename == SecureFilename(filename)
      table_name == SplitextRoot(table_filename)
      table_rules == all_rules
  IN [table_name |-> table_name,
      table_filename |-> table_filename,
      summary |->
        [table_name |-> table_name,
         table_filename |-> table_filename,
         rules_count |-> Len(table_rules),
         rules_with_sql |->
           Cardinality({i \in 1..Len(table_rules) :
                          table_rules[i].expression.has_sql}),
         rules_without_sql |->
           Cardinality({i \in 1..Len(table_rules) :
                          ~table_rules[i].expression.has_sql}),
         by_level |-> CountBy(table_rules, "level", Len(table_rules)),
         by_type |-> CountBy(table_rules, "type", Len(table_rules))],
      qc_rules |-> table_rules]

\* The entry of tables_data for one table file
TableEntry(filename, all_rules) ==
  LET table_filename == SecureFilename(filename)
      table_name == SplitextRoot(table_filename)
      table_rules ==
        SelectSeq(all_rules, LAMBDA r : r.metadata.table = table_name)
  IN [table_name |-> table_name,
      table_filename |-> table_filename,
      summary |->
        [table_name |-> table_name,
         table_filename |-> table_filename,
         rules_count |-> Len(table_rules),
         rules_with_sql |->
           Cardinality({i \in 1..Len(table_rules) :
                          table_rules[i].expression.has_sql}),
         rules_without_sql |->
           Cardinality({i \in 1..Len(table_rules) :
                          ~table_rules[i].expression.has_sql}),
         by_level |-> CountBy(table_rules, "level", Len(table_rules)),
         by_type |-> CountBy(table_rules, "type", Len(table_rules))],
      qc_rules |-> table_rules]

\* "Process each table": the loop over the first n table files, a file
\* without name or that is not a CSV file is passed over
RECURSIVE TablesData(_, _, _)
TablesData(table_files, all_rules, n) ==
  IF n = 0 THEN << >>
  ELSE IF table_files[n] = << >> \/ ~AllowedFile(table_files[n])
  THEN TablesData(table_files, all_rules, n - 1)
  ELSE Append(TablesData(table_files, all_rules, n - 1),
              TableEntry(table_files[n], all_rules))

\* The 500 response of the except clause
ErrorResponse(exc, msg) ==
  [status |-> 500, success |-> FALSE, error |-> msg, error_type |-> exc]

\* A request arrives
ServiceInit ==
  /\ csv_rows \in ServiceFiles
  /\ request \in {Some(req) : req \in Requests}
  /\ qc_rules = << >>
  /\ pc = "new"
  /\ reader = 0
  /\ raised = None
  /\ extractor = SQLSemanticExtractor
  /\ analyses = << >>
  /\ stats = None
  /\ qc_temp = "none"
  /\ response = None

\* The handler returns a 400 response before its try block
HandlerRejects ==
  /\ response = None
  /\ qc_temp = "none"
  /\ ValidationError(request[1]) # None
  /\ response' = Some([status |-> 400, error |-> ValidationError(request[1])[1]])
  /\ UNCHANGED << csv_rows, qc_rules, pc, reader, raised, extractor,
                  analyses, stats, request, qc_temp >>

\* "Save QC file temporarily": NamedTemporaryFile makes the file, save
\* writes it.  Either may fail with an OSError; the except clause then
\* unlinks the file if qc_temp was bound
HandlerSaves ==
  /\ response = None
  /\ qc_temp = "none"
  /\ ValidationError(request[1]) = None
  /\ \E outcome \in {"saved", "no file", "not written"} :
       /\ qc_temp' = CASE outcome = "saved" -> "exists"
                       [] outcome = "no file" -> "none"
                       [] outcome = "not written" -> "deleted"
       /\ response' = IF outcome = "saved" THEN None
                      ELSE Some(ErrorResponse("OSError", outcome))
  /\ UNCHANGED << csv_rows, qc_rules, pc, reader, raised, extractor,
                  analyses, stats, request >>

\* parser = QCParser(qc_temp.name); all_rules = parser.parse()
HandlerParses ==
  /\ response = None
  /\ qc_temp = "exists"
  /\ (ParseOpen \/ ParseRow \/ ParseRowRaises \/ ParseReturn)

\* parse() has returned: the tables are processed, the file is unlinked,
\* the 200 response is returned
HandlerResponds ==
  /\ response = None
  /\ qc_temp = "exists"
  /\ pc = "returned"
  /\ \E tables_data \in
         {TablesData(TableFiles(request[1]), qc_rules,
                     Len(TableFiles(request[1])))} :
       response' = Some([status |-> 200,
                         success |-> TRUE,
                         qc_filename |-> SecureFilename(request[1].qc_file[1]),
                         total_tables |-> Len(tables_data),
                         total_qc_rules |-> Len(qc_rules),
                         tables |-> tables_data])
  /\ qc_temp' = "deleted"
  /\ UNCHANGED << csv_rows, qc_rules, pc, reader, raised, extractor,
                  analyses, stats, request >>

\* An except clause that returns the 500 response and leaves the file
HandlerFailsKeepingFile ==
  /\ response = None
  /\ qc_temp = "exists"
  /\ pc = "raised"
  /\ response' = Some(ErrorResponse(raised[1].exc, raised[1].msg))
  /\ UNCHANGED << csv_rows, qc_rules, pc, reader, raised, extractor,
                  analyses, stats, request, qc_temp >>

\* parse() has raised: the except clause unlinks the file and returns the
\* 500 response
HandlerFails ==
  /\ response = None
  /\ qc_temp = "exists"
  /\ pc = "raised"
  /\ response' = Some(ErrorResponse(raised[1].exc, raised[1].msg))
  /\ qc_temp' = "deleted"
  /\ UNCHANGED << csv_rows, qc_rules, pc, reader, raised, extractor,
                  analyses, stats, request >>

ServiceNext ==
  HandlerRejects \/ HandlerSaves \/ HandlerParses \/ HandlerResponds
    \/ HandlerFails

ServiceSpec == ServiceInit /\ [][ServiceNext]_vars

(***************************************************************************)
(* A caller that makes one SQLSemanticExtractor and calls extract() on it  *)
(* several times; no QCParser runs.                                        *)
(***************************************************************************)

\* The predicates handed to extract(): the trimmed texts of Expressions
Predicates == {Strip(expression) : expression \in Expressions}

\* The most calls made on one extractor
MaxCalls == 2

\* SQLSemanticExtractor()
ExtractorInit ==
  /\ csv_rows = << >>
  /\ qc_rules = << >>
  /\ pc = "new"
  /\ reader = 0
  /\ raised = None
  /\ extractor = SQLSemanticExtractor
  /\ analyses = << >>
  /\ stats = None
  /\ request = None
  /\ qc_temp = "none"
  /\ response = None

\* extractor.extract(sql): the fields are those the walk leaves, the dict
\* is returned to the caller
ExtractCall ==
  /\ Len(analyses) < MaxCalls
  /\ \E sql \in Predicates :
       \E call \in {Extract(extractor, sql)} :
          /\ extractor' = call.value[1].self
          /\ analyses' =
               Append(analyses, [sql |-> sql, result |-> call.value[1].result])
  /\ UNCHANGED << csv_rows, qc_rules, pc, reader, raised, stats, request,
                  qc_temp, response >>

ExtractorNext == ExtractCall

ExtractorSpec == ExtractorInit /\ [][ExtractorNext]_vars

(***************************************************************************)
(* Properties                                                              *)
(***************************************************************************)

\* The records parse() has appended so far; record i is that of row i
Records == 1..Len(qc_rules)

\* The predicate of record i is not empty and sqlglot could not parse it
ParseFailed(i) ==
  /\ qc_rules[i].expression.sql_analysis # None
  /\ ~qc_rules[i].expression.sql_analysis[1].parsed_successfully

\* The categorization of the metadata cascade alone, default included
MetadataOnly(metadata) ==
  CategorizeDefault(CategorizeMetadata(metadata, InitialSemantic))

\* C1: a rule whose non-empty predicate failed to parse is categorized by
\* the metadata cascade alone: its category and subcategory are those the
\* rule would get without a predicate (CONSISTENCY / GENERAL_VALIDATION when
\* no keyword of the metadata cascade matches), whatever the predicate text.
C1_FailedParseSkipsSqlCascade ==
  \A i \in Records :
    ParseFailed(i) =>
      /\ qc_rules[i].semantic_analysis.category
           = MetadataOnly(qc_rules[i].metadata).category
      /\ qc_rules[i].semantic_analysis.subcategory
           = MetadataOnly(qc_rules[i].metadata).subcategory

\* C2: _parse_qc_rule never raises, so no exception leaves parse() and
\* parse() returns one record for each row of the file.
C2_ParseQcRuleIsTotal ==
  /\ pc # "raised"
  /\ raised = None
  /\ pc = "returned" => Len(qc_rules) = Len(csv_rows)

\* C3: extract never raises: no ParseError leaves parse(), and the analysis
\* of a predicate that could not be parsed holds parsed_successfully = false,
\* the error message and the exception class name, and nothing else.
C3_ExtractNeverRaises ==
  /\ raised # None => raised[1].exc # "ParseError"
  /\ \A i \in Records :
       ParseFailed(i) =>
         /\ DOMAIN qc_rules[i].expression.sql_analysis[1]
              = {"parsed_successfully", "error", "error_type"}
         /\ qc_rules[i].expression.sql_analysis[1].error_type = "ParseError"

\* A record whose predicate could not be parsed
C3_Witness == \E i \in Records : ParseFailed(i)

\* Column key of row i is missing: the key is absent or its cell is None
Blank(i, key) ==
  key \notin DOMAIN csv_rows[i] \/ csv_rows[i][key] = None

\* C4: a row in which a column is absent or carries no value gets its record
\* all the same, with "" for each such string field and false for each such
\* flag.
C4_MissingCellsAreNormalized ==
  \A i \in 1..reader :
    (\E key \in Columns : Blank(i, key)) =>
      /\ i <= Len(qc_rules)
      /\ Blank(i, "Table") => qc_rules[i].metadata.table = << >>
      /\ Blank(i, "Field") => qc_rules[i].metadata.field = << >>
      /\ Blank(i, "Code") => qc_rules[i].metadata.code = << >>
      /\ Blank(i, "QC Name") => qc_rules[i].metadata.name = << >>
      /\ Blank(i, "QC Description") =>
           qc_rules[i].metadata.description = << >>
      /\ Blank(i, "Message") => qc_rules[i].metadata.message = << >>
      /\ Blank(i, "Type of QC") => qc_rules[i].metadata.type = << >>
      /\ Blank(i, "Level Error") => qc_rules[i].metadata.level = << >>
      /\ Blank(i, "Creation Mode") => ~qc_rules[i].metadata.creation_mode
      /\ Blank(i, "Status") => ~qc_rules[i].metadata.status
      /\ Blank(i, "Valid") => ~qc_rules[i].metadata.valid
      /\ Blank(i, "Expression") => qc_rules[i].expression.raw_sql = << >>

\* The Expression cell of row i has a character that is not whitespace
NonEmptyTrimmed(i) ==
  /\ ~Blank(i, "Expression")
  /\ \E k \in 1..Len(csv_rows[i]["Expression"][1]) :
       csv_rows[i]["Expression"][1][k] \notin SpaceChars

\* C5: in every record has_sql is true exactly when the predicate is not
\* empty after trimming, and sql_analysis is null exactly when has_sql is
\* false.
C5_HasSqlIffAnalysis ==
  \A i \in Records :
    /\ qc_rules[i].expression.has_sql <=> NonEmptyTrimmed(i)
    /\ qc_rules[i].expression.sql_analysis = None
         <=> ~qc_rules[i].expression.has_sql

\* A record of a predicate of whitespace only, and one of a predicate that
\* could not be parsed
C5_Witness ==
  /\ \E i \in Records :
       /\ ~Blank(i, "Expression")
       /\ csv_rows[i]["Expression"][1] # << >>
       /\ ~qc_rules[i].expression.has_sql
  /\ \E i \in Records : qc_rules[i].expression.has_sql

\* Neither cascade categorizes the rule of record i
NoCascadeMatches(i) ==
  CategorizeSql(qc_rules[i].expression,
                CategorizeMetadata(qc_rules[i].metadata, InitialSemantic))
    .category = None

\* C6: the category of every analysed rule is one of the 14 names of
\* CATEGORIES, never null; it is CONSISTENCY / GENERAL_VALIDATION when
\* neither cascade matches.
C6_CategoryIsNeverNull ==
  \A i \in Records :
    /\ qc_rules[i].semantic_analysis.category # None
    /\ qc_rules[i].semantic_analysis.category[1] \in CATEGORIES
    /\ Cardinality(CATEGORIES) = 14
    /\ NoCascadeMatches(i) =>
         /\ qc_rules[i].semantic_analysis.category = Some("CONSISTENCY")
         /\ qc_rules[i].semantic_analysis.subcategory
              = Some("GENERAL_VALIDATION")

\* A record neither cascade categorizes, with a predicate that was parsed
C6_Witness ==
  \E i \in Records :
    /\ NoCascadeMatches(i)
    /\ qc_rules[i].expression.has_sql
    /\ ~ParseFailed(i)

\* The tests of the metadata cascade in their order: the keywords looked for
\* in the name, the code and the description, and the category of a match
Phase1Tests ==
  << [name |-> {KwCardinality}, code |-> {KwFc}, description |-> {},
      category |-> "CARDINALITY"],
     [name |-> {KwFieldType}, code |-> {KwFt}, description |-> {},
      category |-> "DATA_TYPE"],
     [name |-> {KwUniqueconstraint}, code |-> {KwTu}, description |-> {},
      category |-> "UNIQUENESS"],
     [name |-> {KwLink}, code |-> {KwTc}, description |-> {},
      category |-> "REFERENTIAL_INTEGRITY"],
     [name |-> {KwMandatory}, code |-> {}, description |-> {KwMandatory},
      category |-> "MANDATORY"],
     [name |-> {KwConflict}, code |-> {}, description |-> {KwConflict},
      category |-> "CONFLICT"],
     [name |-> {KwLimit, KwRange}, code |-> {}, description |-> {},
      category |-> "RANGE_CHECK"],
     [name |-> {KwConstraint}, code |-> {}, description |-> {},
      category |-> "CONSISTENCY"] >>

\* The tests of the metadata cascade that match record i, whatever the case
\* of its letters
Phase1Hits(i) ==
  {k \in 1..Len(Phase1Tests) :
     \/ \E kw \in Phase1Tests[k].name :
          Contains(Lower(qc_rules[i].metadata.name), kw)
     \/ \E kw \in Phase1Tests[k].code :
          Contains(Lower(qc_rules[i].metadata.code), kw)
     \/ \E kw \in Phase1Tests[k].description :
          Contains(Lower(qc_rules[i].metadata.description), kw)}

\* C7: when a test of the metadata cascade matches, the category is that of
\* the first matching test in the fixed order (CONSISTENCY comes with
\* VALUE_CONSTRAINT), whatever the predicate.
C7_MetadataCascadeOrder ==
  \A i \in Records :
    Phase1Hits(i) # {} =>
      /\ qc_rules[i].semantic_analysis.category
           = Some(Phase1Tests[Least(Phase1Hits(i))].category)
      /\ Least(Phase1Hits(i)) = Len(Phase1Tests) =>
           qc_rules[i].semantic_analysis.subcategory
             = Some("VALUE_CONSTRAINT")

\* A record that matches a later test too and whose predicate holds " in (":
\* it keeps the category of its first test
C7_Witness ==
  \E i \in Records :
    /\ Cardinality(Phase1Hits(i)) > 1
    /\ qc_rules[i].semantic_analysis.category = Some("MANDATORY")
    /\ Contains(Lower(qc_rules[i].expression.raw_sql), KwInParen)
    /\ ~ParseFailed(i)

\* The category and subcategory of each test of the SQL cascade, in order
Phase2Tests ==
  << [category |-> "NULL_CHECK", subcategory |-> "NULL_VALIDATION"],
     [category |-> "VALUE_LIST", subcategory |-> "ALLOWED_VALUES"],
     [category |-> "RANGE_CHECK", subcategory |-> "NUMERIC_RANGE"],
     [category |-> "REFERENTIAL_INTEGRITY",
      subcategory |-> "CROSS_TABLE_VALIDATION"],
     [category |-> "CROSS_FIELD", subcategory |-> "MULTI_FIELD_VALIDATION"],
     [category |-> "CONSISTENCY", subcategory |-> "GENERAL_VALIDATION"] >>

\* Test k of the SQL cascade matches the parsed predicate of record i; the
\* last test is the default
Phase2Match(i, k) ==
  LET raw_sql == Lower(qc_rules[i].expression.raw_sql)
      sql_analysis == qc_rules[i].expression.sql_analysis[1]
  IN CASE k = 1 -> Contains(raw_sql, KwIsNull) \/ Contains(raw_sql, KwIsNotNull)
       [] k = 2 -> Contains(raw_sql, KwInParen)
       [] k = 3 -> \E kw \in {KwBetween, KwGt, KwLt, KwGte, KwLte} :
                     Contains(raw_sql, kw)
       [] k = 4 -> Len(sql_analysis.joins) >= 1
       [] k = 5 -> Len(sql_analysis.columns) > 2
       [] OTHER -> TRUE

\* The first test of the SQL cascade that matches record i
Phase2First(i) == Least({k \in 1..Len(Phase2Tests) : Phase2Match(i, k)})

\* Record i has no match in the metadata cascade and a parsed predicate
Phase2Applies(i) ==
  /\ Phase1Hits(i) = {}
  /\ qc_rules[i].expression.has_sql
  /\ ~ParseFailed(i)

\* C8: a rule with no match in the metadata cascade and a parsed predicate
\* gets the category and subcategory of the first matching test of the SQL
\* cascade, in the fixed order.
C8_SqlCascadeOrder ==
  \A i \in Records :
    Phase2Applies(i) =>
      /\ qc_rules[i].semantic_analysis.category
           = Some(Phase2Tests[Phase2First(i)].category)
      /\ qc_rules[i].semantic_analysis.subcategory
           = Some(Phase2Tests[Phase2First(i)].subcategory)

\* A predicate with a join and "is not null" that is a NULL_CHECK
C8_Witness ==
  \E i \in Records :
    /\ Phase2Applies(i)
    /\ Phase2Match(i, 4)
    /\ qc_rules[i].semantic_analysis.category = Some("NULL_CHECK")

\* Records i and j agree on name, code, description, predicate and analysis
SameInputs(i, j) ==
  /\ qc_rules[i].metadata.name = qc_rules[j].metadata.name
  /\ qc_rules[i].metadata.code = qc_rules[j].metadata.code
  /\ qc_rules[i].metadata.description = qc_rules[j].metadata.description
  /\ qc_rules[i].expression = qc_rules[j].expression

\* C9: two rules that agree on name, code, description, predicate and
\* analysis get the same category and subcategory, whatever the rest of
\* their metadata and whatever rules came before them.
C9_CategoryIsDeterministic ==
  \A i, j \in Records :
    SameInputs(i, j) =>
      /\ qc_rules[i].semantic_analysis.category
           = qc_rules[j].semantic_analysis.category
      /\ qc_rules[i].semantic_analysis.subcategory
           = qc_rules[j].semantic_analysis.subcategory

\* Two such rules that differ in table, field, message, type, level and
\* flags, with another rule analysed between them
C9_Witness ==
  /\ Len(qc_rules) = 3
  /\ SameInputs(1, 3)
  /\ ~SameInputs(1, 2)
  /\ qc_rules[1].metadata.table # qc_rules[3].metadata.table
  /\ qc_rules[1].metadata.field # qc_rules[3].metadata.field
  /\ qc_rules[1].metadata.message # qc_rules[3].metadata.message
  /\ qc_rules[1].metadata.type # qc_rules[3].metadata.type
  /\ qc_rules[1].metadata.level # qc_rules[3].metadata.level
  /\ qc_rules[1].metadata.valid # qc_rules[3].metadata.valid

\* The counts the score is made of, as the analysis of record i reports them
Counts(i) ==
  LET sql_analysis == qc_rules[i].expression.sql_analysis[1]
  IN << Len(sql_analysis.tables), Len(sql_analysis.joins),
        Len(sql_analysis.where_conditions), Len(sql_analysis.aggregations),
        sql_analysis.subquery_count, Len(sql_analysis.functions) >>

\* The analysis of record i is that of a parsed predicate
Parsed(i) == qc_rules[i].expression.has_sql /\ ~ParseFailed(i)

\* C10: the score of a successful analysis is 2*tables + 5*joins + 3*where
\* conditions + 4*aggregations + 10*subqueries + 2*functions over the fields
\* of that analysis, and does not decrease when the counts grow.
C10_ComplexityScore ==
  /\ \A i \in Records :
       Parsed(i) =>
         qc_rules[i].expression.sql_analysis[1].complexity_score
           = 2 * Counts(i)[1] + 5 * Counts(i)[2] + 3 * Counts(i)[3]
             + 4 * Counts(i)[4] + 10 * Counts(i)[5] + 2 * Counts(i)[6]
  /\ \A i, j \in Records :
       (Parsed(i) /\ Parsed(j) /\ \A k \in 1..6 : Counts(i)[k] <= Counts(j)[k])
         => qc_rules[i].expression.sql_analysis[1].complexity_score
              <= qc_rules[j].expression.sql_analysis[1].complexity_score

\* Two analyses in one file, one with more tables and joins than the other
\* and no count below it, the lesser one with a column and no table
C10_Witness ==
  \E i, j \in Records :
    /\ Parsed(i) /\ Parsed(j)
    /\ Counts(i)[1] < Counts(j)[1]
    /\ Counts(i)[2] < Counts(j)[2]
    /\ \A k \in 1..6 : Counts(i)[k] <= Counts(j)[k]
    /\ Len(qc_rules[i].expression.sql_analysis[1].columns) > Counts(i)[1]

\* The tree sqlglot made of the predicate of record i
TreeOf(i) == ParseOne(qc_rules[i].expression.raw_sql).value[1]

\* The nodes of tree whose class name is one of types, in the order of the
\* tree
NodesOfType(tree, types) ==
  SelectSeq([n \in 1..Len(tree) |-> n], LAMBDA n : tree[n].type \in types)

\* The list of str is in strictly ascending order: sorted, no entry twice
Ascending(list) ==
  \A k \in 1..(Len(list) - 1) : StrLess(list[k], list[k + 1])

\* The class names of the aggregate calls
AggregateTypes == {TCount, TMax}

\* C11: in the analysis of a parsed predicate, tables, columns, functions
\* and operators are in ascending order with no entry twice; joins,
\* where_conditions, aggregations and literals hold one entry for each such
\* node of the tree, and select_expressions one for each projection, in
\* the order of the tree.
C11_SetsSortedListsKept ==
  \A i \in Records :
    Parsed(i) =>
      LET sql_analysis == qc_rules[i].expression.sql_analysis[1]
          tree == TreeOf(i)
          literals == NodesOfType(tree, {TLiteral})
          joins == NodesOfType(tree, {TJoin})
          wheres == NodesOfType(tree, {TWhere})
          aggregates == NodesOfType(tree, AggregateTypes)
          selects == NodesOfType(tree, {TSelect})
      IN /\ Ascending(sql_analysis.tables)
         /\ Ascending(sql_analysis.columns)
         /\ Ascending(sql_analysis.functions)
         /\ Ascending(sql_analysis.operators)
         /\ Len(sql_analysis.literals) = Len(literals)
         /\ \A k \in 1..Len(literals) :
              sql_analysis.literals[k].value = tree[literals[k]].value
         /\ Len(sql_analysis.joins) = Len(joins)
         /\ \A k \in 1..Len(joins) :
              sql_analysis.joins[k].table
                = Some(tree[tree[joins[k]].this].sql)
         /\ Len(sql_analysis.where_conditions) = Len(wheres)
         /\ \A k \in 1..Len(wheres) :
              sql_analysis.where_conditions[k].condition
                = tree[tree[wheres[k]].this].sql
         /\ Len(sql_analysis.aggregations) = Len(aggregates)
         /\ \A k \in 1..Len(aggregates) :
              sql_analysis.aggregations[k].function = tree[aggregates[k]].type
         /\ Len(sql_analysis.select_expressions)
              = Len(Concat([k \in 1..Len(selects) |->
                              tree[selects[k]].expressions], 1))

\* An analysis whose columns are met in descending order by the walk, with
\* the same literal twice and an operator met twice
C11_Witness ==
  \E i \in Records :
    /\ Parsed(i)
    /\ qc_rules[i].expression.raw_sql = SqlMixed
    /\ qc_rules[i].expression.sql_analysis[1].columns = << <<"x">>, <<"y">> >>
    /\ Len(qc_rules[i].expression.sql_analysis[1].literals) = 3
    /\ qc_rules[i].expression.sql_analysis[1].literals[1]
         = qc_rules[i].expression.sql_analysis[1].literals[3]
    /\ Len(qc_rules[i].expression.sql_analysis[1].operators) = 4

\* C12: two extract() calls on one extractor that are given the same
\* predicate return the same dict: nothing of an earlier call shows in a
\* later one.
C12_ExtractIsIdempotent ==
  \A i, j \in 1..Len(analyses) :
    analyses[i].sql = analyses[j].sql =>
      analyses[i].result = analyses[j].result

\* The class names of the function-call nodes of tree, aggregates included
FunctionCalls(tree) ==
  {tree[n].type : n \in {m \in 1..Len(tree) : "Func" \in tree[m].classes}}

\* C13: the class name of every function call of the tree is in functions,
\* so that of an aggregate call is both in aggregations and in functions.
C13_AggregatesAreFunctions ==
  \A i \in Records :
    Parsed(i) =>
      LET sql_analysis == qc_rules[i].expression.sql_analysis[1]
          functions == {sql_analysis.functions[k] :
                          k \in 1..Len(sql_analysis.functions)}
      IN /\ FunctionCalls(TreeOf(i)) \subseteq functions
         /\ \A k \in 1..Len(sql_analysis.aggregations) :
              sql_analysis.aggregations[k].function \in functions

\* The qualified names of the nodes of tree of class type, at any depth
NamesOfType(tree, type) ==
  {GetQualifiedName(tree, tree[n]) :
     n \in {m \in 1..Len(tree) : tree[m].type = type}}

\* The elements of a list
Elements(list) == {list[k] : k \in 1..Len(list)}

\* Node n of tree is below a node of one of the types
Below(tree, n, types) ==
  \E m \in 1..Len(tree) :
    /\ tree[m].type \in types
    /\ n \in Reached(tree, {m}) \ {m}

\* C14: the walk reaches every node of the tree once, whatever the kind of
\* the nodes above it: every Table and Column node at any depth has its
\* name in tables or columns, every Literal node has its one entry in
\* literals, and subquery_count is the number of Subquery nodes.
C14_WalkVisitsEveryNode ==
  \A i \in Records :
    Parsed(i) =>
      LET sql_analysis == qc_rules[i].expression.sql_analysis[1]
          tree == TreeOf(i)
      IN /\ Elements(sql_analysis.tables) = NamesOfType(tree, TTable)
         /\ Elements(sql_analysis.columns) = NamesOfType(tree, TColumn)
         /\ Len(sql_analysis.literals)
              = Len(NodesOfType(tree, {TLiteral}))
         /\ sql_analysis.subquery_count
              = Len(NodesOfType(tree, {TSubquery}))

\* An analysis with a table and a column below a Subquery node, the table
\* below a From node, of a kind the walk does not recognize, and the column
\* below a function call
C14_Witness ==
  \E i \in Records :
    /\ Parsed(i)
    /\ qc_rules[i].expression.sql_analysis[1].subquery_count = 1
    /\ \E n \in 1..Len(TreeOf(i)) :
         /\ TreeOf(i)[n].type = TTable
         /\ Below(TreeOf(i), n, {TSubquery})
         /\ Below(TreeOf(i), n, {TFrom})
         /\ GetQualifiedName(TreeOf(i), TreeOf(i)[n])
              \in Elements(qc_rules[i].expression.sql_analysis[1].tables)
    /\ \E n \in 1..Len(TreeOf(i)) :
         /\ TreeOf(i)[n].type = TColumn
         /\ Below(TreeOf(i), n, {TSubquery})
         /\ Below(TreeOf(i), n, {TMax})
         /\ GetQualifiedName(TreeOf(i), TreeOf(i)[n])
              \in Elements(qc_rules[i].expression.sql_analysis[1].columns)

\* The category of record i is one of names
CategoryIn(i, names) ==
  \E name \in names : qc_rules[i].semantic_analysis.category = Some(name)

\* C15: a NULL_CHECK or CARDINALITY rule has exactly one constraint, the
\* NOT_NULL one on the field the row declares, with required true; without
\* a predicate fields_checked is that field alone.
C15_NotNullOnDeclaredField ==
  \A i \in Records :
    CategoryIn(i, {"NULL_CHECK", "CARDINALITY"}) =>
      /\ Len(qc_rules[i].semantic_analysis.constraints) = 1
      /\ qc_rules[i].semantic_analysis.constraints[1].type = "NOT_NULL"
      /\ qc_rules[i].semantic_analysis.constraints[1].field
           = qc_rules[i].metadata.field
      /\ qc_rules[i].semantic_analysis.constraints[1].required = TRUE
      /\ DOMAIN qc_rules[i].semantic_analysis.constraints[1]
           = {"type", "field", "required"}
      /\ (~qc_rules[i].expression.has_sql /\ qc_rules[i].metadata.field # << >>)
           => qc_rules[i].semantic_analysis.fields_checked
                = << qc_rules[i].metadata.field >>

\* A CARDINALITY rule without a predicate, and a NULL_CHECK rule whose
\* declared field is none of the columns of its predicate
C15_Witness ==
  /\ \E i \in Records :
       /\ CategoryIn(i, {"CARDINALITY"})
       /\ ~qc_rules[i].expression.has_sql
       /\ qc_rules[i].semantic_analysis.fields_checked
            = << qc_rules[i].metadata.field >>
  /\ \E i \in Records :
       /\ CategoryIn(i, {"NULL_CHECK"})
       /\ Parsed(i)
       /\ qc_rules[i].expression.sql_analysis[1].columns # << >>
       /\ \A k \in 1..Len(qc_rules[i].expression.sql_analysis[1].columns) :
            LastSegment(qc_rules[i].expression.sql_analysis[1].columns[k])
              # qc_rules[i].metadata.field

\* The comparison operator that stands at position p of s, "" if none
\* does: ">" or "<", with the "=" that follows it
OperatorAt(s, p) ==
  IF s[p] \notin {"<", ">"} THEN << >>
  ELSE IF p < Len(s) /\ s[p + 1] = "=" THEN << s[p], "=" >>
  ELSE << s[p] >>

\* The positions of the comparisons of s with operator op, left to right
ComparisonsOf(s, op) ==
  SelectSeq([p \in 1..Len(s) |-> p], LAMBDA p : OperatorAt(s, p) = op)

\* The word that ends just left of position p of s, blanks skipped
WordLeft(s, p) ==
  LET last == CHOOSE b \in 0..(p - 1) :
                /\ b > 0 => s[b] \notin SpaceChars
                /\ \A j \in (b + 1)..(p - 1) : s[j] \in SpaceChars
      first == CHOOSE a \in 1..(last + 1) :
                 /\ \A j \in a..last : s[j] \in WordChars
                 /\ a > 1 => s[a - 1] \notin WordChars
  IN SubSeq(s, first, last)

\* The number that starts just right of position p of s, blanks skipped: a
\* run of digits and points
NumberRight(s, p) ==
  LET first == CHOOSE d \in p..(Len(s) + 1) :
                 /\ d <= Len(s) => s[d] \notin SpaceChars
                 /\ \A j \in p..(d - 1) : s[j] \in SpaceChars
      last == CHOOSE e \in (first - 1)..Len(s) :
                /\ \A j \in first..e : s[j] \in NumberChars
                /\ e < Len(s) => s[e + 1] \notin NumberChars
  IN SubSeq(s, first, last)

\* The RANGE constraints of the comparisons of s with the operator op
RangeOf(s, op, bound_type, inclusive) ==
  [k \in 1..Len(ComparisonsOf(s, op)) |->
     [type |-> "RANGE",
      field |-> WordLeft(s, ComparisonsOf(s, op)[k]),
      bound_type |-> bound_type,
      value |-> Float(NumberRight(s, ComparisonsOf(s, op)[k] + Len(op)))
                  .value[1],
      inclusive |-> inclusive]]

\* C16: the constraints of a RANGE_CHECK rule are one RANGE constraint for
\* each comparison of the lower-cased predicate: those with >= (MIN,
\* inclusive), then those with > (MIN), then <= (MAX, inclusive), then <
\* (MAX), each group left to right, with the word left of the operator as
\* field and the number right of it as value; "a.value >= 0 AND a.value <=
\* 100" gives value >= 0.0 and value <= 100.0, and 2.50 is the number 5/2.
C16_RangeConstraints ==
  \A i \in Records :
    CategoryIn(i, {"RANGE_CHECK"}) =>
      /\ qc_rules[i].semantic_analysis.constraints
           = RangeOf(Lower(qc_rules[i].expression.raw_sql),
                     <<">", "=">>, "MIN", TRUE)
             \o RangeOf(Lower(qc_rules[i].expression.raw_sql),
                        <<">">>, "MIN", FALSE)
             \o RangeOf(Lower(qc_rules[i].expression.raw_sql),
                        <<"<", "=">>, "MAX", TRUE)
             \o RangeOf(Lower(qc_rules[i].expression.raw_sql),
                        <<"<">>, "MAX", FALSE)
      /\ qc_rules[i].expression.raw_sql = SqlRange =>
           qc_rules[i].semantic_analysis.constraints
             = << [type |-> "RANGE", field |-> <<"v", "a", "l", "u", "e">>,
                   bound_type |-> "MIN", value |-> [num |-> 0, den |-> 1],
                   inclusive |-> TRUE],
                  [type |-> "RANGE", field |-> <<"v", "a", "l", "u", "e">>,
                   bound_type |-> "MAX", value |-> [num |-> 100, den |-> 1],
                   inclusive |-> TRUE] >>
      /\ qc_rules[i].expression.raw_sql = SqlMixed =>
           /\ Len(qc_rules[i].semantic_analysis.constraints) = 3
           /\ 2 * qc_rules[i].semantic_analysis.constraints[1].value.num
                = 5 * qc_rules[i].semantic_analysis.constraints[1].value.den

\* A RANGE_CHECK rule on "y < 5 AND x >= 2.50 AND y > 5": the comparison
\* written first comes last
C16_Witness ==
  \E i \in Records :
    /\ CategoryIn(i, {"RANGE_CHECK"})
    /\ qc_rules[i].expression.raw_sql = SqlMixed
    /\ Len(qc_rules[i].semantic_analysis.constraints) = 3
    /\ qc_rules[i].semantic_analysis.constraints[1].field = <<"x">>
    /\ qc_rules[i].semantic_analysis.constraints[1].inclusive
    /\ qc_rules[i].semantic_analysis.constraints[2].bound_type = "MIN"
    /\ ~qc_rules[i].semantic_analysis.constraints[2].inclusive
    /\ qc_rules[i].semantic_analysis.constraints[3].bound_type = "MAX"
    /\ qc_rules[i].semantic_analysis.constraints[3].field = <<"y">>

\* "Active" and "Inactive", as written in SqlIn
ValueActive == <<"A", "c", "t", "i", "v", "e">>
ValueInactive == <<"I", "n", "a", "c", "t", "i", "v", "e">>

\* C17: the VALUE_LIST rule on "status IN ('Active','Inactive')" has exactly
\* one constraint, VALUE_LIST with operator IN, whose allowed_values are
\* Active and Inactive as the predicate writes them.
C17_AllowedValuesAsWritten ==
  \A i \in Records :
    (CategoryIn(i, {"VALUE_LIST"}) /\ qc_rules[i].expression.raw_sql = SqlIn)
      => /\ Len(qc_rules[i].semantic_analysis.constraints) = 1
         /\ qc_rules[i].semantic_analysis.constraints[1].type = "VALUE_LIST"
         /\ qc_rules[i].semantic_analysis.constraints[1].operator = "IN"
         /\ qc_rules[i].semantic_analysis.constraints[1].allowed_values
              = << ValueActive, ValueInactive >>

\* The tables of the analysis of record i, none without a parsed predicate
TablesOf(i) ==
  IF Parsed(i) THEN qc_rules[i].expression.sql_analysis[1].tables ELSE << >>

\* C18: reference_tables is empty for every rule that is not
\* REFERENTIAL_INTEGRITY; for one that is, it equals the tables of the
\* analysis (none without a predicate or after a failed parse), and the
\* rule has exactly one constraint, FOREIGN_KEY on the declared field with
\* these tables as references.
C18_ReferenceTables ==
  \A i \in Records :
    /\ ~CategoryIn(i, {"REFERENTIAL_INTEGRITY"}) =>
         qc_rules[i].semantic_analysis.reference_tables = << >>
    /\ CategoryIn(i, {"REFERENTIAL_INTEGRITY"}) =>
         /\ qc_rules[i].semantic_analysis.reference_tables = TablesOf(i)
         /\ qc_rules[i].semantic_analysis.constraints
              = << [type |-> "FOREIGN_KEY",
                    field |-> qc_rules[i].metadata.field,
                    references |-> TablesOf(i)] >>

\* A REFERENTIAL_INTEGRITY rule with the two tables of its join as
\* reference tables, one whose predicate failed to parse, and a rule of
\* another category whose predicate names tables
C18_Witness ==
  /\ \E i \in Records :
       /\ CategoryIn(i, {"REFERENTIAL_INTEGRITY"})
       /\ Len(qc_rules[i].semantic_analysis.reference_tables) = 2
  /\ \E i \in Records :
       /\ CategoryIn(i, {"REFERENTIAL_INTEGRITY"})
       /\ ParseFailed(i)
       /\ qc_rules[i].semantic_analysis.reference_tables = << >>
       /\ Len(qc_rules[i].semantic_analysis.constraints) = 1
  /\ \E i \in Records :
       /\ ~CategoryIn(i, {"REFERENTIAL_INTEGRITY"})
       /\ TablesOf(i) # << >>

\* The final dot-separated segment of a column name
FinalSegment(col) ==
  LET start == CHOOSE a \in 1..(Len(col) + 1) :
                 /\ \A j \in a..Len(col) : col[j] # "."
                 /\ a > 1 => col[a - 1] = "."
  IN SubSeq(col, start, Len(col))

\* The columns of the analysis of record i, none without a parsed predicate
ColumnsOf(i) ==
  IF Parsed(i) THEN qc_rules[i].expression.sql_analysis[1].columns ELSE << >>

\* The first column of record i whose final segment is name
FirstColumn(i, name) ==
  Least({k \in 1..Len(ColumnsOf(i)) : FinalSegment(ColumnsOf(i)[k]) = name})

\* C19: fields_checked holds no name twice; its names are the declared
\* field, when not empty, and the final segments of the columns of a parsed
\* predicate; the declared field comes first and the segments that are not
\* the declared field follow in the order of their columns.
C19_FieldsCheckedDistinct ==
  \A i \in Records :
    LET fields_checked == qc_rules[i].semantic_analysis.fields_checked
        field == qc_rules[i].metadata.field
        declared == IF field = << >> THEN 0 ELSE 1
    IN /\ \A k, l \in 1..Len(fields_checked) :
            k # l => fields_checked[k] # fields_checked[l]
       /\ Elements(fields_checked)
            = {name \in {field} : name # << >>}
                \cup {FinalSegment(ColumnsOf(i)[k]) :
                        k \in 1..Len(ColumnsOf(i))}
       /\ declared = 1 => fields_checked[1] = field
       /\ \A k, l \in (declared + 1)..Len(fields_checked) :
            k < l => FirstColumn(i, fields_checked[k])
                       < FirstColumn(i, fields_checked[l])
       /\ ~Parsed(i) => Len(fields_checked) <= declared

\* A rule whose two columns, a.id and b.id, end in the same segment: the
\* declared field, then id once
C19_Witness ==
  \E i \in Records :
    /\ Len(ColumnsOf(i)) = 2
    /\ FinalSegment(ColumnsOf(i)[1]) = FinalSegment(ColumnsOf(i)[2])
    /\ ColumnsOf(i)[1] # ColumnsOf(i)[2]
    /\ qc_rules[i].semantic_analysis.fields_checked
         = << qc_rules[i].metadata.field, FinalSegment(ColumnsOf(i)[1]) >>

\* The sql_analysis of a record built from a row: what one call of extract
\* on a new extractor returns when a predicate is present, None otherwise
ExtractedOnce(built) ==
  IF built.expression.has_sql
  THEN Some(Extract(SQLSemanticExtractor,
                    built.expression.raw_sql).value[1].result)
  ELSE None

\* C20: each record is what _parse_qc_rule built from its row, with the
\* result of one extract call on a new extractor as sql_analysis when a
\* predicate is present and None otherwise, and with the semantic_analysis
\* computed from that sql_analysis; analyze leaves metadata, raw_sql,
\* has_sql and sql_analysis as they were and only adds semantic_analysis.
C20_ExtractThenAnalyzeOnce ==
  \A i \in Records :
    \E built \in {BuildRule(csv_rows[i]).value[1]} :
      /\ DOMAIN qc_rules[i] = {"metadata", "expression", "semantic_analysis"}
      /\ qc_rules[i].metadata = built.metadata
      /\ qc_rules[i].expression.raw_sql = built.expression.raw_sql
      /\ qc_rules[i].expression.has_sql = built.expression.has_sql
      /\ \E sql_analysis \in {ExtractedOnce(built)} :
           /\ qc_rules[i].expression.sql_analysis = sql_analysis
           /\ \E analyzed \in
                  {Analyze([metadata |-> built.metadata,
                            expression |->
                              [raw_sql |-> built.expression.raw_sql,
                               has_sql |-> built.expression.has_sql,
                               sql_analysis |-> sql_analysis]])} :
                qc_rules[i].semantic_analysis
                  = analyzed.value[1].semantic_analysis

\* One file with a rule without predicate, left without sql_analysis, and
\* a rule whose predicate was parsed: its sql_analysis names tables and
\* columns and its fields_checked shows that analyze read them
C20_Witness ==
  \E i, j \in Records :
    /\ ~qc_rules[i].expression.has_sql
    /\ qc_rules[i].expression.sql_analysis = None
    /\ Parsed(j)
    /\ TablesOf(j) # << >>
    /\ ColumnsOf(j) # << >>
    /\ Len(qc_rules[j].semantic_analysis.fields_checked) > 1

Statistics == stats[1]

\* The rules with a parsed predicate whose complexity_score is in lo..hi
Scored(lo, hi) ==
  {i \in Records :
     /\ Parsed(i)
     /\ qc_rules[i].expression.sql_analysis[1].complexity_score \in lo..hi}

\* The rules with a parsed predicate whose complexity_score is lo or more
ScoredFrom(lo) ==
  {i \in Records :
     /\ Parsed(i)
     /\ qc_rules[i].expression.sql_analysis[1].complexity_score >= lo}

\* C22: get_statistics counts the rules with a parsed predicate by
\* complexity_score: simple below 10, medium from 10 to 29, complex from 30;
\* every such rule is in exactly one bucket, and a rule without predicate or
\* with a parse failure is in none.
C22_ComplexityBuckets ==
  stats # None =>
    /\ Statistics.complexity.simple = Cardinality(Scored(0, 9))
    /\ Statistics.complexity.medium = Cardinality(Scored(10, 29))
    /\ Statistics.complexity.complex = Cardinality(ScoredFrom(30))
    /\ Statistics.complexity.simple + Statistics.complexity.medium
         + Statistics.complexity.complex
         = Cardinality({i \in Records : Parsed(i)})

\* The statistics of a file whose one rule has a complexity_score of
\* exactly 30
C22_Witness ==
  /\ stats # None
  /\ Scored(30, 30) # {}
  /\ Statistics.complexity = [simple |-> 0, medium |-> 0, complex |-> 1]

\* The sum of the counts of a dict
RECURSIVE SumOver(_, _)
SumOver(d, keys) ==
  IF keys = {} THEN 0
  ELSE LET key == CHOOSE k \in keys : TRUE
       IN d[key] + SumOver(d, keys \ {key})

SumCounts(d) == SumOver(d, DOMAIN d)

\* C28: the statistics partition the rules: with_sql + without_sql is
\* total_rules, the parse errors and the three complexity buckets add up to
\* with_sql, and the counts by type, by level and by table each add up to
\* total_rules, the number of records.
C28_StatisticsPartition ==
  stats # None =>
    /\ Statistics.total_rules = Len(qc_rules)
    /\ Statistics.with_sql + Statistics.without_sql = Statistics.total_rules
    /\ Statistics.sql_parse_errors + Statistics.complexity.simple
         + Statistics.complexity.medium + Statistics.complexity.complex
         = Statistics.with_sql
    /\ SumCounts(Statistics.by_type) = Statistics.total_rules
    /\ SumCounts(Statistics.by_level) = Statistics.total_rules
    /\ SumCounts(Statistics.by_table) = Statistics.total_rules

\* The statistics of three rules of two tables and two types: one without
\* predicate, one with a parse failure, two of the same table
C28_Witness ==
  /\ stats # None
  /\ Statistics.total_rules = 3
  /\ Statistics.without_sql = 1
  /\ Statistics.sql_parse_errors = 1
  /\ Cardinality(DOMAIN Statistics.by_table) = 2
  /\ Cardinality(DOMAIN Statistics.by_type) = 2
  /\ Cardinality(DOMAIN Statistics.by_level) = 2

\* C27: whenever parse() has returned, after one call or after several,
\* qc_rules holds one record per row of the file, in row order, and
\* get_statistics counts as many rules as the file has rows.
C27_OneRecordPerRow ==
  pc = "returned" =>
    /\ Len(qc_rules) = Len(csv_rows)
    /\ \A i \in 1..Len(csv_rows) :
         qc_rules[i].metadata = BuildRule(csv_rows[i]).value[1].metadata
    /\ GetStatistics(qc_rules).total_rules = Len(csv_rows)

\* A word without the comma or period it ends with
TrailingStripped(word) ==
  IF word[Len(word)] \in {",", "."} THEN SubSeq(word, 1, Len(word) - 1)
  ELSE word

\* The words that start with a lowercase letter and hold an uppercase one
CamelWords(words) ==
  SelectSeq(words, LAMBDA word :
    /\ word[1] \in LowerChars
    /\ \E k \in 1..Len(word) : word[k] \in UpperChars)

\* The words of a list, each without its trailing comma or period
RECURSIVE EachStripped(_)
EachStripped(words) ==
  IF words = << >> THEN << >>
  ELSE << TrailingStripped(Head(words)) >> \o EachStripped(Tail(words))

\* C24: a UNIQUENESS rule has exactly one constraint, UNIQUE with scope
\* TABLE; its fields are the lower-camel-case words of the description, in
\* order, each without a trailing comma or period and with the commas and
\* periods inside it kept.
C24_UniqueFieldsTrailingOnly ==
  \A i \in Records :
    CategoryIn(i, {"UNIQUENESS"}) =>
      /\ Len(qc_rules[i].semantic_analysis.constraints) = 1
      /\ qc_rules[i].semantic_analysis.constraints[1].type = "UNIQUE"
      /\ qc_rules[i].semantic_analysis.constraints[1].scope = "TABLE"
      /\ qc_rules[i].semantic_analysis.constraints[1].fields
           = EachStripped(CamelWords(Split(qc_rules[i].metadata.description, 1)))

\* The keywords of the expected type, in the order they are tried
TypeKeywords ==
  << <<KwDate, "DATE">>, <<KwInteger, "INTEGER">>, <<KwDecimal, "DECIMAL">>,
     <<KwNumber, "DECIMAL">>, <<KwText, "TEXT">>, <<KwString, "TEXT">>,
     <<KwBoolean, "BOOLEAN">> >>

\* The type of the first keyword the lower-cased name holds
FirstMatch(name) ==
  LET hits == {k \in 1..Len(TypeKeywords) :
                 Contains(Lower(name), TypeKeywords[k][1])}
  IN IF hits = {} THEN "UNKNOWN" ELSE TypeKeywords[Least(hits)][2]

\* C25: a DATA_TYPE rule has exactly one constraint, DATA_TYPE on the
\* declared field; its expected_type is that of the first keyword of date,
\* integer, decimal or number, text or string, boolean in the lower-cased
\* name, UNKNOWN without one; the subcategory is DATE_FORMAT exactly when
\* the type is DATE and NUMERIC_TYPE exactly when it is INTEGER or DECIMAL.
C25_ExpectedTypeFirstMatch ==
  \A i \in Records :
    CategoryIn(i, {"DATA_TYPE"}) =>
      LET semantic == qc_rules[i].semantic_analysis
      IN /\ Len(semantic.constraints) = 1
         /\ semantic.constraints[1]
              = [type |-> "DATA_TYPE",
                 field |-> qc_rules[i].metadata.field,
                 expected_type |-> FirstMatch(qc_rules[i].metadata.name)]
         /\ semantic.subcategory = Some("DATE_FORMAT")
              <=> semantic.constraints[1].expected_type = "DATE"
         /\ semantic.subcategory = Some("NUMERIC_TYPE")
              <=> semantic.constraints[1].expected_type
                    \in {"INTEGER", "DECIMAL"}

\* The rule named "Integer Date": DATE, the keyword tried first, and
\* DATE_FORMAT
C25_Witness ==
  \E i \in Records :
    /\ qc_rules[i].metadata.name = NameIntegerDate
    /\ CategoryIn(i, {"DATA_TYPE"})
    /\ qc_rules[i].semantic_analysis.subcategory = Some("DATE_FORMAT")
    /\ qc_rules[i].semantic_analysis.constraints[1].expected_type = "DATE"

\* C26: a MANDATORY, CONFLICT, CONSISTENCY or CROSS_FIELD rule has no
\* constraint and no reference table, whatever its predicate holds.
C26_NoConstraintSynthesized ==
  \A i \in Records :
    CategoryIn(i, {"MANDATORY", "CONFLICT", "CONSISTENCY", "CROSS_FIELD"}) =>
      /\ qc_rules[i].semantic_analysis.constraints = << >>
      /\ qc_rules[i].semantic_analysis.reference_tables = << >>

\* A MANDATORY rule whose predicate compares a column with two bounds
C26_Witness ==
  \E i \in Records :
    /\ CategoryIn(i, {"MANDATORY"})
    /\ qc_rules[i].expression.raw_sql = SqlRange
    /\ Parsed(i)
    /\ qc_rules[i].semantic_analysis.constraints = << >>

\* C30: analyze_qc_rules on records that already carry a semantic_analysis
\* returns without exception and leaves every record, its
\* semantic_analysis included, equal to what it was: constraints,
\* fields_checked and reference_tables do not grow.
C30_AnalyzeIsIdempotent ==
  [][(pc = "returned" /\ pc' # "returned")
       => (pc' = "analyzed" /\ qc_rules' = qc_rules)]_vars

\* The records were analyzed again, among them one with a constraint, two
\* checked fields and reference tables
C30_Witness ==
  /\ pc = "analyzed"
  /\ \E i \in Records :
       /\ qc_rules[i].semantic_analysis.constraints # << >>
       /\ Len(qc_rules[i].semantic_analysis.fields_checked) > 1
       /\ qc_rules[i].semantic_analysis.reference_tables # << >>

\* The 200 response of the handler, when there is one
Returned200 == response # None /\ response[1].status = 200

\* The table files the handler makes an entry for: those with a name that
\* are CSV files
AcceptedFiles ==
  SelectSeq(TableFiles(request[1]),
            LAMBDA filename : filename # << >> /\ AllowedFile(filename))

\* The rules of the QC file of the table name, in file order
RulesOfTable(name) ==
  SelectSeq(qc_rules, LAMBDA rule : rule.metadata.table = name)

\* The counts of the summary of a table entry agree with its list of rules
SummaryAgrees(entry) ==
  /\ entry.summary.rules_count = Len(entry.qc_rules)
  /\ entry.summary.rules_count
       = entry.summary.rules_with_sql + entry.summary.rules_without_sql
  /\ SumCounts(entry.summary.by_level) = entry.summary.rules_count
  /\ SumCounts(entry.summary.by_type) = entry.summary.rules_count

\* A 200 response has one entry per accepted table file, in order; each
\* entry lists the rules whose table is TableName of its file and its
\* summary agrees; the totals count the entries and the rules of the file
TablesListedBy(TableName(_)) ==
  Returned200 =>
    /\ Len(response[1].tables) = Len(AcceptedFiles)
    /\ response[1].total_tables = Len(response[1].tables)
    /\ response[1].total_qc_rules = Len(qc_rules)
    /\ Len(qc_rules) = Len(csv_rows)
    /\ \A k \in 1..Len(AcceptedFiles) :
         /\ response[1].tables[k].qc_rules
              = RulesOfTable(TableName(AcceptedFiles[k]))
         /\ SummaryAgrees(response[1].tables[k])

\* The name of a file without its extension
WithoutExtension(filename) ==
  SubSeq(filename, 1,
         (CHOOSE i \in 1..Len(filename) :
            /\ filename[i] = "."
            /\ \A j \in (i + 1)..Len(filename) : filename[j] # ".") - 1)

\* The name of a file as the handler stores it, without its extension:
\* blanks have become "_"
SanitizedWithoutExtension(filename) ==
  [i \in 1..Len(WithoutExtension(filename)) |->
     IF WithoutExtension(filename)[i] = " " THEN "_"
     ELSE WithoutExtension(filename)[i]]

\* C23: in a 200 response each table entry lists exactly the rules whose
\* metadata.table is the sanitized name of the uploaded table file without
\* its extension; rules_count = rules_with_sql + rules_without_sql = the
\* number of rules listed = the sum of by_level = the sum of by_type;
\* total_tables is the number of entries and total_qc_rules the number of
\* rules of the QC file.
C23_TablesBySanitizedName == TablesListedBy(SanitizedWithoutExtension)

\* C23 as stated, with the name of the uploaded file as it was sent: each
\* table entry lists exactly the rules whose metadata.table is the base
\* name of the uploaded table file.
C23_TablesByUploadedName == TablesListedBy(WithoutExtension)

\* A 200 response for the table files "WaterBody.csv", which lists a rule,
\* and "Water Body.csv", stored as Water_Body.csv, when the QC file has a
\* rule of each of the tables "WaterBody" and "Water Body"
C23_Witness ==
  /\ Returned200
  /\ AcceptedFiles = << FileWaterBody, FileSpaced >>
  /\ RulesOfTable(CellTableA) # << >>
  /\ RulesOfTable(CellTableSpaced) # << >>
  /\ response[1].tables[1].summary.rules_count = 1
  /\ response[1].tables[2].summary.rules_count = 0

====
